---- MODULE Spec2Model ----
(***************************************************************************)
(* Verification model of the agent control loop                            *)
(* (opendevin/controller/agent_controller.py) and of the CodeAct agent     *)
(* step function with its memory condenser                                 *)
(* (agenthub/codeact_agent/codeact_agent.py).                              *)
(*                                                                         *)
(* Spec      : AgentController (start / resume / _run / step /             *)
(*             set_task_state_to) interleaved at its await points.         *)
(* SpecAgent : CodeActAgent.step and summarize_messages_inplace.           *)
(***************************************************************************)
EXTENDS Integers, Sequences, FiniteSets, TLC

(***************************************************************************)
(* Bounds of the model.                                                    *)
(***************************************************************************)
MaxIterations == 3      \* the iteration ceiling max_iterations of the run
MaxChars == 1           \* the character ceiling max_chars of the run
MaxBg == 1              \* background observations the sandbox produces
MaxExternal == 1        \* external set_task_state_to calls during a run
MaxResume == 1          \* resume() calls after the loop has returned
MaxBuf == 4             \* messages after the system prompt and the example
MaxTok == 2             \* token count of one message
MaxSummaryTok == 3      \* token count of a summary
MaxEmpty == 1           \* completions that return an empty response

VARIABLES
    \* ---- AgentController fields -------------------------------------
    hasState,        \* self.state is not None
    history,         \* self.state.history : sequence of (action, observation)
    updated_info,    \* self.state.updated_info
    iteration,       \* self.state.iteration
    num_of_chars,    \* self.state.num_of_chars
    background_commands_obs, \* self.state.background_commands_obs (count)
    task_state,      \* self._task_state
    finished,        \* self._finished : "False" | "True" | "None"
    cur_step,        \* self._cur_step
    \* ---- the _run / step coroutine ------------------------------------
    pc,              \* position of the coroutine
    i,               \* loop variable of _run, argument of step
    log_obs,         \* step: background observations still to be recorded
    action,          \* step: local variable action
    observation,     \* step: local variable observation
    ret,             \* value step returns to _run: "True" | "None"
    exc,             \* exception that left _run ("none" when none did)
    \* ---- collaborators --------------------------------------------------
    bgPending,       \* command_manager: background observations not yet read
    delivered,       \* events handed to the callbacks, in order
    \* ---- history variables of the run ------------------------------------
    stepCalls,       \* arguments i of the invocations of step, in order
    agentCalls,      \* iterations at which agent.step was invoked, in order
    finishAt,        \* iteration at which the agent returned the finish action
    errIters,        \* iterations whose step caught an exception
    fatalAt,         \* iteration at which a fatal condition occurred
    fatalHist,       \* history at the moment of the fatal condition
    bgTotal,         \* background observations produced so far
    external,        \* external set_task_state_to calls so far
    resumes,         \* resume() calls so far
    \* ---- CodeActAgent.step ----------------------------------------------
    latest_user_message, \* state.history.get_last_user_message()
    messages,        \* step: local variable messages
    attempt,         \* step: local variable attempt
    response,        \* step: local variable response
    apc,             \* position in CodeActAgent.step
    result,          \* what step returned or raised
    \* ---- history variables of the step ------------------------------------
    trace,           \* outcomes of the LLM calls of the step, in order
    tries,           \* turns of the while loop so far
    exhausted,       \* the loop ended without a response
    condIn,          \* argument of the last summarize_messages_inplace
    condCut,         \* cutoff it selected
    condOutcome,     \* how it ended
    summIn,          \* what it handed to the summarizer
    emptyCount,      \* empty responses so far
    \* ---- CodeActPlanningResponseParser ---------------------------------
    content,         \* response.choices[0].message.content, as tokens
    action_str,      \* what parse_response returned
    parsed,          \* what parse returned or raised, and the matcher used
    ppc,             \* position in CodeActPlanningResponseParser.parse
    \* ---- _get_messages of CodeActAgent and CodeActSWEAgent --------------
    agent_class,     \* the agent whose step assembles the messages
    events,          \* state.history.get_events()
    assembled,       \* what _get_messages returned
    mpc,             \* "step": about to assemble, "act": about to record
    \* ---- a second coroutine of the same controller ------------------------
    other,           \* the locals of the coroutine that is not running now
    spawned,         \* start()/resume() calls made while a loop was active
    switches,        \* switches between the two coroutines so far
    \* ---- run_agent_controller and shutdown (opendevin/core/main.py) -------
    enable_cli_session,  \* config.enable_cli_session
    initial_state,   \* what State.restore_from_session gave
    start_events,    \* contents of the events main added to the stream
    is_shutting_down,    \* the global _is_shutting_down
    main_pc,         \* position of the main task in run_agent_controller
    main_cancel,     \* a cancellation of the main task is pending
    shutdown_pc,     \* position of the task running shutdown()
    tasks,           \* the other in-flight tasks: "running", "cancelling", "done"
    agent_state,     \* controller.get_agent_state()
    handler_event,   \* the shutdown_event the signal handlers hold is set
    saved,           \* end_state.save_to_session was called
    signals,         \* signals received so far
    \* ---- browse (opendevin/runtime/server/browse.py) -----------------------
    browse_action,   \* the argument action
    browser_step,    \* what browser.step(action_str) did
    browse_result,   \* what browse returned or raised
    bpc,             \* position in browse
    \* ---- _run_callbacks (agent_controller.py) -----------------------------
    cb_event,        \* the argument event
    callbacks,       \* self.callbacks
    cb_k,            \* position of the for loop in self.callbacks
    cb_invoked,      \* the calls callback(event) made, with their outcome
    cb_logged,       \* the idx of each logger.exception
    cbpc,            \* position in _run_callbacks
    \* ---- the shared CodeActPlanningResponseParser -------------------------
    matchers,        \* the instance state of the matchers: their last matches
    parses           \* texts the parser instance has parsed

ctlVars == <<hasState, history, updated_info, iteration, num_of_chars,
             background_commands_obs, task_state, finished, cur_step,
             pc, i, log_obs, action, observation, ret, exc, bgPending,
             delivered, stepCalls, agentCalls, finishAt, errIters, fatalAt,
             fatalHist, bgTotal, external, resumes>>

agentVars == <<latest_user_message, messages, attempt, response, apc, result,
               trace, tries, exhausted, condIn, condCut, condOutcome, summIn,
               emptyCount>>

parserVars == <<content, action_str, parsed, ppc>>

msgVars == <<agent_class, events, assembled, mpc>>

coVars == <<other, spawned, switches>>

mainVars == <<enable_cli_session, initial_state, start_events,
              is_shutting_down, main_pc, main_cancel, shutdown_pc, tasks,
              agent_state, handler_event, saved, signals>>

browseVars == <<browse_action, browser_step, browse_result, bpc>>

cbVars == <<cb_event, callbacks, cb_k, cb_invoked, cb_logged, cbpc>>

sharedVars == <<matchers, parses>>

vars == <<ctlVars, agentVars, parserVars, msgVars, coVars, mainVars,
          browseVars, cbVars, sharedVars>>

\* what the actions of each component leave alone
notCtlVars == <<agentVars, parserVars, msgVars, coVars, mainVars,
                browseVars, cbVars, sharedVars>>
notAgentVars == <<ctlVars, parserVars, msgVars, coVars, mainVars,
                browseVars, cbVars, sharedVars>>
notParserVars == <<ctlVars, agentVars, msgVars, coVars, mainVars,
                browseVars, cbVars, sharedVars>>
notMsgVars == <<ctlVars, agentVars, parserVars, coVars, mainVars,
                browseVars, cbVars, sharedVars>>
notMainVars == <<ctlVars, agentVars, parserVars, msgVars, coVars,
                 browseVars, cbVars, sharedVars>>
notBrowseVars == <<ctlVars, agentVars, parserVars, msgVars, coVars, mainVars,
                   cbVars, sharedVars>>
notCbVars == <<ctlVars, agentVars, parserVars, msgVars, coVars, mainVars,
               browseVars, sharedVars>>
notSharedParserVars == <<ctlVars, agentVars, msgVars, coVars, mainVars,
                         browseVars, cbVars>>

(***************************************************************************)
(* Actions and observations of the controller.                             *)
(***************************************************************************)
ActionKinds == {"NullAction", "AgentFinishAction", "AddTaskAction",
                "ModifyTaskAction", "CmdRunAction", "MessageAction"}

\* Action.executable: ExecutableAction subclasses only
Executable(a) == a \in {"CmdRunAction"}

\* what agent.step can do: return an action, return None, or raise
AgentReturns == ActionKinds \ {"NullAction"}
AgentRaises == {"AuthenticationError", "Exception"}

\* TaskState values an external caller passes to set_task_state_to
ExternalStates == {"PAUSED", "STOPPED", "FINISHED"}

\* growth of state.num_of_chars during one agent step
CharGrowth == {0, MaxChars + 1}

Min(a, b) == IF a < b THEN a ELSE b

Range(s) == {s[k] : k \in 1..Len(s)}

\* positions at which the coroutine is suspended in an await
YieldPcs == {"idle", "start_notified", "resume_notified", "drain_yield",
             "action_yield", "run_await", "obs_yield", "pause_yield",
             "done", "raised"}

(***************************************************************************)
(* Helpers translated from the controller.                                 *)
(***************************************************************************)
\* mutation of InRange: the ceiling itself is still iterated
InRangeInclusive(k) == k <= MaxIterations

\* _run: for i in range(self._cur_step, self.max_iterations)
InRange(k) == k < MaxIterations

\* step: if self.state.num_of_chars > self.max_chars
MaxCharsExceeded(n) == n > MaxChars

\* mutation of IsFatal: every exception of the agent is re-raised
IsFatalAnyException(e) == e \in {"AuthenticationError", "AgentNoActionError", "Exception"}

\* mutation of IsFatal: the no-action error is not re-raised
IsFatalAuthOnly(e) == e = "AuthenticationError"

\* step: if isinstance(e, (AuthenticationError, AgentNoActionError)): raise
IsFatal(e) == e \in {"AuthenticationError", "AgentNoActionError"}

\* step: finished = isinstance(action, AgentFinishAction)
IsFinish(a) == a = "AgentFinishAction"

\* _run: the match statement on self._task_state.  The first case is the
\* sequence pattern (FINISHED, STOPPED); a TaskState is not a sequence, so
\* only the PAUSED case can match.
MatchTaskState(s) == IF s = "PAUSED" THEN "pause" ELSE "next"

\* mutation of AddHistory: the pair replaces the list
AddHistoryOverwrite(h, a, o) == IF hasState THEN <<[act |-> a, obs |-> o]>> ELSE h

\* add_history: no-op without a state, else append the pair (to history and
\* to updated_info)
AddHistory(h, a, o) == IF hasState THEN Append(h, [act |-> a, obs |-> o]) ELSE h

\* _run_callbacks(event): every callback receives the event
RunCallbacks(d, kind, v) == Append(d, [ev |-> kind, v |-> v])

\* notify_task_state_changed: TaskStateChangedAction(self._task_state)
NotifyTaskStateChanged(d, s) == RunCallbacks(d, "TaskStateChangedAction", s)

(***************************************************************************)
(* Initial state: the controller as constructed, no task started.          *)
(***************************************************************************)
CtlInit ==
    /\ hasState = FALSE
    /\ history = <<>>
    /\ updated_info = <<>>
    /\ iteration = 0
    /\ num_of_chars = 0
    /\ background_commands_obs = 0
    /\ task_state = "INIT"
    /\ finished = "False"
    /\ cur_step = 0
    /\ pc = "idle"
    /\ i = 0
    /\ log_obs = 0
    /\ action = "NullAction"
    /\ observation = "NullObservation"
    /\ ret = "None"
    /\ exc = "none"
    /\ bgPending = 0
    /\ delivered = <<>>
    /\ stepCalls = <<>>
    /\ agentCalls = <<>>
    /\ finishAt = -1
    /\ errIters = {}
    /\ fatalAt = -1
    /\ fatalHist = <<>>
    /\ bgTotal = 0
    /\ external = 0
    /\ resumes = 0

\* no agent step in progress
AgentIdle ==
    /\ latest_user_message = "None"
    /\ messages = <<>>
    /\ attempt = 0
    /\ response = [try |-> 0, text |-> "None"]
    /\ apc = "idle"
    /\ result = [kind |-> "none", val |-> "none"]
    /\ trace = <<>>
    /\ tries = 0
    /\ exhausted = FALSE
    /\ condIn = <<>>
    /\ condCut = 0
    /\ condOutcome = "none"
    /\ summIn = <<>>
    /\ emptyCount = 0

\* no parse in progress
ParserIdle ==
    /\ content = <<>>
    /\ action_str = <<>>
    /\ parsed = [by |-> "none", action |-> [kind |-> "none"]]
    /\ ppc = "idle"

\* no message assembly in progress
AssemblerIdle ==
    /\ agent_class = "none"
    /\ events = <<>>
    /\ assembled = <<>>
    /\ mpc = "idle"

\* the coroutine that called start() is the only one
NoCoroutine == [pc |-> "none", i |-> 0, log_obs |-> 0, action |-> "NullAction",
                observation |-> "NullObservation", ret |-> "None",
                exc |-> "none"]

SingleCoroutine ==
    /\ other = NoCoroutine
    /\ spawned = 0
    /\ switches = 0

\* run_agent_controller was not called
MainIdle ==
    /\ enable_cli_session = FALSE
    /\ initial_state = "None"
    /\ start_events = <<>>
    /\ is_shutting_down = FALSE
    /\ main_pc = "idle"
    /\ main_cancel = FALSE
    /\ shutdown_pc = "none"
    /\ tasks = <<>>
    /\ agent_state = "LOADING"
    /\ handler_event = FALSE
    /\ saved = FALSE
    /\ signals = 0

\* browse is not called
BrowseIdle ==
    /\ browse_action = [action |-> "none"]
    /\ browser_step = [outcome |-> "none"]
    /\ browse_result = [kind |-> "none"]
    /\ bpc = "idle"

\* _run_callbacks is not called
CallbacksIdle ==
    /\ cb_event = "none"
    /\ callbacks = <<>>
    /\ cb_k = 0
    /\ cb_invoked = <<>>
    /\ cb_logged = <<>>
    /\ cbpc = "idle"

\* no parser instance is followed from text to text
SharedIdle ==
    /\ matchers = <<>>
    /\ parses = 0

\* the components a specification does not run
Idle(ctl, agent, parser, assembler, main) ==
    /\ BrowseIdle
    /\ CallbacksIdle
    /\ SharedIdle
    /\ ctl => (CtlInit /\ SingleCoroutine)
    /\ agent => AgentIdle
    /\ parser => ParserIdle
    /\ assembler => AssemblerIdle
    /\ main => MainIdle

Init == CtlInit /\ SingleCoroutine /\ AgentIdle /\ ParserIdle /\ AssemblerIdle
          /\ MainIdle /\ BrowseIdle /\ CallbacksIdle /\ SharedIdle

stateVars == <<hasState, history, updated_info, iteration, num_of_chars,
               background_commands_obs>>
localVars == <<i, log_obs, action, observation, ret>>
ghostVars == <<stepCalls, agentCalls, finishAt, errIters, fatalAt, fatalHist>>
envVars == <<bgPending, bgTotal, external, resumes>>

(***************************************************************************)
(* _run: entry checks, executed when start or resume calls it.             *)
(***************************************************************************)
EnterRunFromZero(hs) ==
    IF ~hs
    THEN /\ pc' = "done"
         /\ UNCHANGED <<i, exc, stepCalls, agentCalls, finishAt, errIters>>
    ELSE IF task_state # "RUNNING"
    THEN /\ pc' = "raised"
         /\ exc' = "ValueError"
         /\ UNCHANGED <<i, stepCalls, agentCalls, finishAt, errIters>>
    ELSE /\ pc' = "loop_head"
         /\ i' = 0
         /\ stepCalls' = <<>>
         /\ agentCalls' = <<>>
         /\ finishAt' = -1
         /\ errIters' = {}
         /\ UNCHANGED exc

EnterRun(hs) ==
    IF ~hs
    THEN /\ pc' = "done"
         /\ UNCHANGED <<i, exc, stepCalls, agentCalls, finishAt, errIters>>
    ELSE IF task_state # "RUNNING"
    THEN /\ pc' = "raised"
         /\ exc' = "ValueError"
         /\ UNCHANGED <<i, stepCalls, agentCalls, finishAt, errIters>>
    ELSE /\ pc' = "loop_head"
         /\ i' = cur_step
         /\ stepCalls' = <<>>
         /\ agentCalls' = <<>>
         /\ finishAt' = -1
         /\ errIters' = {}
         /\ UNCHANGED exc

\* start(task), up to the await in notify_task_state_changed
Start ==
    /\ pc = "idle"
    /\ task_state' = "RUNNING"
    /\ delivered' = NotifyTaskStateChanged(delivered, "RUNNING")
    /\ pc' = "start_notified"
    /\ UNCHANGED <<stateVars, finished, cur_step, localVars, exc, ghostVars,
                   envVars>>
    /\ UNCHANGED notCtlVars

\* start(task), after the await: self.state = State(Plan(task)); _run()
StartRun ==
    /\ pc = "start_notified"
    /\ hasState' = TRUE
    /\ history' = <<>>
    /\ updated_info' = <<>>
    /\ iteration' = 0
    /\ num_of_chars' = 0
    /\ background_commands_obs' = 0
    /\ EnterRun(TRUE)
    /\ UNCHANGED <<task_state, finished, cur_step, log_obs, action,
                   observation, ret, delivered, fatalAt, fatalHist, envVars>>
    /\ UNCHANGED notCtlVars

\* resume(), up to the await in notify_task_state_changed
Resume ==
    /\ pc = "done"
    /\ hasState
    /\ task_state = "PAUSED"     \* the caller resumes a paused task only
    /\ resumes < MaxResume
    /\ resumes' = resumes + 1
    /\ task_state' = "RUNNING"
    /\ delivered' = NotifyTaskStateChanged(delivered, "RUNNING")
    /\ pc' = "resume_notified"
    /\ UNCHANGED <<stateVars, finished, cur_step, localVars, exc, ghostVars,
                   bgPending, bgTotal, external>>
    /\ UNCHANGED notCtlVars

\* resume(), after the await: _run()
ResumeRun ==
    /\ pc = "resume_notified"
    /\ EnterRun(hasState)
    /\ UNCHANGED <<stateVars, task_state, finished, cur_step, log_obs, action,
                   observation, ret, delivered, fatalAt, fatalHist, envVars>>
    /\ UNCHANGED notCtlVars

\* _run: the for statement; calls step(i) or leaves the loop
LoopHead ==
    /\ pc = "loop_head"
    /\ IF InRange(i)
       THEN /\ pc' = "step_begin"
            /\ stepCalls' = Append(stepCalls, i)
       ELSE /\ pc' = "done"
            /\ UNCHANGED stepCalls
    /\ UNCHANGED <<stateVars, task_state, finished, cur_step, localVars, exc,
                   agentCalls, finishAt, errIters, fatalAt, fatalHist,
                   delivered, envVars>>
    /\ UNCHANGED notCtlVars

\* step: state check, character ceiling, read of the background observations
StepBegin ==
    /\ pc = "step_begin"
    /\ IF ~hasState
       THEN /\ ret' = "None"
            /\ pc' = "after_step"
            /\ UNCHANGED <<exc, log_obs, bgPending, fatalAt, fatalHist>>
       ELSE /\ IF MaxCharsExceeded(num_of_chars)
               THEN /\ exc' = "MaxCharsExceedError"
                    /\ pc' = "raised"
                    /\ UNCHANGED <<ret, log_obs, bgPending>>
               ELSE /\ log_obs' = bgPending
                    /\ bgPending' = 0
                    /\ pc' = "drain"
                    /\ UNCHANGED <<ret, exc>>
            /\ IF num_of_chars > MaxChars
               THEN /\ fatalAt' = i
                    /\ fatalHist' = history
               ELSE UNCHANGED <<fatalAt, fatalHist>>
    /\ UNCHANGED <<stateVars, task_state, finished, cur_step, i, action,
                   observation, delivered, stepCalls, agentCalls, finishAt,
                   errIters, bgTotal, external, resumes>>
    /\ UNCHANGED notCtlVars

\* step: one turn of "for obs in log_obs", up to the await of the callbacks
Drain ==
    /\ pc = "drain"
    /\ log_obs > 0
    /\ history' = AddHistory(history, "NullAction", "BackgroundObservation")
    /\ updated_info' = AddHistory(updated_info, "NullAction",
                                  "BackgroundObservation")
    /\ delivered' = RunCallbacks(delivered, "observation",
                                 "BackgroundObservation")
    /\ log_obs' = log_obs - 1
    /\ pc' = "drain_yield"
    /\ UNCHANGED <<hasState, iteration, num_of_chars, background_commands_obs,
                   task_state, finished, cur_step, i, action, observation, ret,
                   exc, ghostVars, envVars>>
    /\ UNCHANGED notCtlVars

DrainResume ==
    /\ pc = "drain_yield"
    /\ pc' = "drain"
    /\ UNCHANGED <<stateVars, task_state, finished, cur_step, localVars, exc,
                   delivered, ghostVars, envVars>>
    /\ UNCHANGED notCtlVars

\* the conditions the controller treats as fatal for the session
FatalKinds == {"AuthenticationError", "AgentNoActionError",
               "MaxCharsExceedError"}

\* step: update_state_for_step, agent.step and its except clause,
\* update_state_after_step, the callbacks for the action.  R is the set of
\* actions the agent may return.
AgentStepOf(R) ==
    /\ pc = "drain"
    /\ log_obs = 0
    /\ agentCalls' = Append(agentCalls, i)
    \* update_state_for_step(i)
    /\ IF hasState
       THEN /\ iteration' = i
            /\ background_commands_obs' = bgPending
            /\ bgPending' = 0
       ELSE UNCHANGED <<iteration, background_commands_obs, bgPending>>
    /\ \/ \* agent.step returns an action
          \E a \in R, g \in CharGrowth :
             /\ action' = a
             /\ observation' = "NullObservation"
             /\ num_of_chars' = IF hasState
                                THEN Min(num_of_chars + g, MaxChars + 1)
                                ELSE num_of_chars
             /\ finishAt' = IF IsFinish(a) /\ finishAt = -1 THEN i ELSE finishAt
             /\ updated_info' = <<>>
             /\ delivered' = RunCallbacks(delivered, "action", a)
             /\ pc' = "action_yield"
             /\ UNCHANGED <<exc, errIters, fatalAt, fatalHist>>
       \/ \* agent.step raises, or returns None (AgentNoActionError)
          \E e \in AgentRaises \cup {"AgentNoActionError"} :
             /\ action' = "NullAction"
             /\ observation' = "AgentErrorObservation"
             /\ IF IsFatal(e)
                THEN /\ exc' = e
                     /\ pc' = "raised"
                     /\ UNCHANGED <<updated_info, delivered>>
                ELSE /\ updated_info' = <<>>
                     /\ delivered' = RunCallbacks(delivered, "action",
                                                  "NullAction")
                     /\ pc' = "action_yield"
                     /\ UNCHANGED exc
             /\ IF e \in FatalKinds
                THEN /\ fatalAt' = i
                     /\ fatalHist' = history
                     /\ UNCHANGED errIters
                ELSE /\ errIters' = errIters \cup {i}
                     /\ UNCHANGED <<fatalAt, fatalHist>>
             /\ UNCHANGED <<num_of_chars, finishAt>>
    /\ UNCHANGED <<hasState, history, task_state, finished, cur_step, i,
                   log_obs, ret, stepCalls, bgTotal, external, resumes>>
    /\ UNCHANGED notCtlVars

AgentStep == AgentStepOf(AgentReturns)

\* step, after the callbacks for the action: the finish test, the task
\* mutation, and the first call of action.run
Dispatch ==
    /\ pc = "action_yield"
    /\ IF IsFinish(action)
       THEN /\ ret' = "True"
            /\ pc' = "after_step"
            /\ UNCHANGED <<observation, errIters>>
       ELSE IF action \in {"AddTaskAction", "ModifyTaskAction"}
       THEN \* plan.add_subtask / plan.set_subtask_state; without a state the
            \* attribute access on None raises
            /\ \E ok \in (IF hasState THEN BOOLEAN ELSE {FALSE}) :
                  IF ok
                  THEN UNCHANGED <<observation, errIters>>
                  ELSE /\ observation' = "AgentErrorObservation"
                       /\ errIters' = errIters \cup {i}
            /\ pc' = "record"
            /\ UNCHANGED ret
       ELSE IF Executable(action)
       THEN \* action.run(self): raises, returns an awaitable, or returns
            \* the observation
            /\ \E r \in {"raise", "awaitable", "value"} :
                  CASE r = "raise" ->
                          /\ observation' = "AgentErrorObservation"
                          /\ errIters' = errIters \cup {i}
                          /\ pc' = "record"
                    [] r = "awaitable" ->
                          /\ pc' = "run_await"
                          /\ UNCHANGED <<observation, errIters>>
                    [] r = "value" ->
                          /\ observation' = "CmdOutputObservation"
                          /\ pc' = "record"
                          /\ UNCHANGED errIters
            /\ UNCHANGED ret
       ELSE /\ pc' = "record"
            /\ UNCHANGED <<observation, errIters, ret>>
    /\ UNCHANGED <<stateVars, task_state, finished, cur_step, i, log_obs,
                   action, exc, delivered, stepCalls, agentCalls, finishAt,
                   fatalAt, fatalHist, envVars>>
    /\ UNCHANGED notCtlVars

\* step: the awaited action.run completes or raises
RunComplete ==
    /\ pc = "run_await"
    /\ \E ok \in BOOLEAN :
          IF ok
          THEN /\ observation' = "CmdOutputObservation"
               /\ UNCHANGED errIters
          ELSE /\ observation' = "AgentErrorObservation"
               /\ errIters' = errIters \cup {i}
    /\ pc' = "record"
    /\ UNCHANGED <<stateVars, task_state, finished, cur_step, i, log_obs,
                   action, ret, exc, delivered, stepCalls, agentCalls,
                   finishAt, fatalAt, fatalHist, envVars>>
    /\ UNCHANGED notCtlVars

\* step: add_history(action, observation) and the callbacks for the
\* observation
Record ==
    /\ pc = "record"
    /\ history' = AddHistory(history, action, observation)
    /\ updated_info' = AddHistory(updated_info, action, observation)
    /\ delivered' = RunCallbacks(delivered, "observation", observation)
    /\ pc' = "obs_yield"
    /\ UNCHANGED <<hasState, iteration, num_of_chars, background_commands_obs,
                   task_state, finished, cur_step, localVars, exc, ghostVars,
                   envVars>>
    /\ UNCHANGED notCtlVars

\* step returns None after the last await
StepReturn ==
    /\ pc = "obs_yield"
    /\ ret' = "None"
    /\ pc' = "after_step"
    /\ UNCHANGED <<stateVars, task_state, finished, cur_step, i, log_obs,
                   action, observation, exc, delivered, ghostVars, envVars>>
    /\ UNCHANGED notCtlVars

\* _run: self._finished = <result of step>; match self._task_state
AfterStep ==
    /\ pc = "after_step"
    /\ finished' = ret
    /\ IF MatchTaskState(task_state) = "pause"
       THEN /\ cur_step' = i + 1
            /\ delivered' = NotifyTaskStateChanged(delivered, task_state)
            /\ pc' = "pause_yield"
            /\ UNCHANGED i
       ELSE /\ i' = i + 1
            /\ pc' = "loop_head"
            /\ UNCHANGED <<cur_step, delivered>>
    /\ UNCHANGED <<stateVars, task_state, log_obs, action, observation, ret,
                   exc, ghostVars, envVars>>
    /\ UNCHANGED notCtlVars

\* _run: break after the notification of the pause
PauseBreak ==
    /\ pc = "pause_yield"
    /\ pc' = "done"
    /\ UNCHANGED <<stateVars, task_state, finished, cur_step, localVars, exc,
                   delivered, ghostVars, envVars>>
    /\ UNCHANGED notCtlVars

(***************************************************************************)
(* The environment of the loop, acting while the coroutine is suspended.   *)
(***************************************************************************)
\* the sandbox produces output of a background command
BackgroundOutput ==
    /\ pc \in YieldPcs \ {"raised"}
    /\ bgTotal < MaxBg
    /\ bgTotal' = bgTotal + 1
    /\ bgPending' = bgPending + 1
    /\ UNCHANGED <<stateVars, task_state, finished, cur_step, pc, localVars,
                   exc, delivered, ghostVars, external, resumes>>
    /\ UNCHANGED notCtlVars

\* set_task_state_to(state), with reset_task when state is STOPPED
SetTaskStateTo(s) ==
    /\ pc \in YieldPcs \ {"idle", "raised"}
    /\ external < MaxExternal
    /\ external' = external + 1
    /\ IF s = "STOPPED"
       THEN /\ hasState' = FALSE
            /\ history' = <<>>
            /\ updated_info' = <<>>
            /\ iteration' = 0
            /\ num_of_chars' = 0
            /\ background_commands_obs' = 0
            /\ cur_step' = 0
            /\ task_state' = "INIT"
            /\ delivered' = NotifyTaskStateChanged(delivered, "INIT")
       ELSE /\ task_state' = s
            /\ UNCHANGED <<stateVars, cur_step, delivered>>
    /\ UNCHANGED <<finished, pc, localVars, exc, ghostVars, bgPending,
                   bgTotal, resumes>>
    /\ UNCHANGED notCtlVars

SetTaskState == \E s \in ExternalStates : SetTaskStateTo(s)

\* a run of the loop on its own: start, the iterations, the sandbox
Next ==
    \/ Start
    \/ StartRun
    \/ LoopHead
    \/ StepBegin
    \/ Drain
    \/ DrainResume
    \/ AgentStep
    \/ Dispatch
    \/ RunComplete
    \/ Record
    \/ StepReturn
    \/ AfterStep
    \/ BackgroundOutput

Spec == Init /\ [][Next]_vars

\* the actions an agent returns in the runs with external callers
ConcReturns == {"AgentFinishAction", "AddTaskAction", "CmdRunAction"}

AgentStepConc == AgentStepOf(ConcReturns)

\* the loop with external callers of set_task_state_to and resume
NextConc ==
    \/ Start
    \/ StartRun
    \/ Resume
    \/ ResumeRun
    \/ LoopHead
    \/ StepBegin
    \/ Drain
    \/ DrainResume
    \/ AgentStepConc
    \/ Dispatch
    \/ RunComplete
    \/ Record
    \/ StepReturn
    \/ AfterStep
    \/ PauseBreak
    \/ BackgroundOutput
    \/ SetTaskState

SpecConc == Init /\ [][NextConc]_vars

TypeOK ==
    /\ hasState \in BOOLEAN
    /\ task_state \in {"INIT", "RUNNING"} \cup ExternalStates
    /\ finished \in {"False", "True", "None"}
    /\ cur_step \in 0..MaxIterations
    /\ i \in 0..MaxIterations
    /\ action \in ActionKinds
    /\ num_of_chars \in 0..(MaxChars + 1)

(***************************************************************************)
(* CodeActAgent: messages, the LLM collaborator, the memory condenser.     *)
(***************************************************************************)
Roles == {"user", "assistant"}

\* a message of the buffer: its role, its token count as the LLM reports
\* it for the message alone, and the history events it stands for
EventMessage(r, t, n) == [role |-> r, tok |-> t, kind |-> "event", ids |-> {n}]

\* _get_messages: the system prompt and the in-context example lead
SystemMessage == [role |-> "system", tok |-> 1, kind |-> "system", ids |-> {}]
ExampleMessage == [role |-> "user", tok |-> 1, kind |-> "example", ids |-> {}]

\* the message sequences _get_messages can produce, up to the bounds
MessageSeqs ==
    UNION {{<<SystemMessage, ExampleMessage>>
              \o [j \in 1..n |-> EventMessage(b[j][1], b[j][2], j)] :
                b \in [1..n -> Roles \X (1..MaxTok)]} : n \in 0..MaxBuf}

\* values of the latest user message, and str.strip on them
UserMessages == {"None", "/exit", " /exit\n", "/exit now"}

StripIdentity(t) == t

Strip(t) == IF t = " /exit\n" THEN "/exit" ELSE t

\* self.attempts_to_condense = 2
AttemptsToCondense == 2

\* MESSAGE_SUMMARY_TRUNC_TOKEN_FRAC = 0.75, as a fraction
TruncFracNum == 3
TruncFracDen == 4

\* llm.get_token_count(messages) for a list of messages
RECURSIVE TokenCount(_)
TokenCount(m) == IF m = <<>> THEN 0 ELSE m[1].tok + TokenCount(Tail(m))

\* message_buffer_token_count = sum(token_counts[2:])
BufferTokenCount(m) == TokenCount(SubSeq(m, 3, Len(m)))

\* int(message_buffer_token_count * MESSAGE_SUMMARY_TRUNC_TOKEN_FRAC)
DesiredTokenCount(total) == (total * TruncFracNum) \div TruncFracDen

\* the for loop over the candidates: the 0-based index at which the running
\* sum first exceeds the desired count, the last index when it never does
RECURSIVE ScanCutoff(_, _, _, _)
ScanCutoff(cand, k, tokens_so_far, desired) ==
    LET t == tokens_so_far + cand[k + 1].tok
    IN  IF t > desired \/ k + 1 = Len(cand)
        THEN k
        ELSE ScanCutoff(cand, k + 1, t, desired)

\* mutation of AccountForSystem: the offset of both leading messages
AccountForBoth(c) == c + 2

\* cutoff += 1  ("Account for system message")
AccountForSystem(c) == c + 1

\* mutation of ShiftCutoff: the cutoff is shifted past every user message
RECURSIVE ShiftCutoffPastUsers(_, _)
ShiftCutoffPastUsers(m, c) ==
    IF c >= Len(m) THEN c
    ELSE IF m[c + 1].role # "user" THEN c
    ELSE IF c + 1 >= Len(m) THEN c
    ELSE ShiftCutoffPastUsers(m, c + 1)

\* the try block that shifts the cutoff past a user message; messages[k]
\* with k >= len(messages) raises IndexError, which leaves cutoff as it is
ShiftCutoff(m, c) ==
    IF c >= Len(m) THEN c
    ELSE IF m[c + 1].role # "user" THEN c
    ELSE IF c + 1 >= Len(m) THEN c
    ELSE c + 1

\* the cutoff summarize_messages_inplace selects for messages m, as the
\* Python index into m (m has at least one message after index 1)
Cutoff(m) ==
    LET cand == SubSeq(m, 3, Len(m))
        desired == DesiredTokenCount(BufferTokenCount(m))
    IN  ShiftCutoff(m, AccountForSystem(ScanCutoff(cand, 0, 0, desired)))

\* messages[2:cutoff]
SequenceToSummarize(m, c) == SubSeq(m, 3, c)

\* mutation of TooFewToSummarize: a single message is summarized
TooFewOnlyEmpty(n) == n < 1

\* if len(message_sequence_to_summarize) <= 1: raise SummarizeError
TooFewToSummarize(n) == n <= 1

\* the message that carries the summary of the sequence q
SummaryMessage(q, t) ==
    [role |-> "assistant", tok |-> t, kind |-> "summary",
     ids |-> UNION {q[j].ids : j \in 1..Len(q)}]

\* mutation of NewMessages: the summary is added and nothing is removed
NewMessagesKeepAll(m, c, summary) ==
    SubSeq(m, 1, 2) \o <<summary>> \o SubSeq(m, 3, Len(m))

\* mutation of NewMessages: the message at the cutoff is dropped
NewMessagesDropCutoff(m, c, summary) ==
    SubSeq(m, 1, 2) \o <<summary>> \o SubSeq(m, c + 2, Len(m))

\* messages[:2] + [{'role': 'assistant', 'content': summary}] + messages[cutoff:]
NewMessages(m, c, summary) ==
    SubSeq(m, 1, 2) \o <<summary>> \o SubSeq(m, c + 1, Len(m))

\* texts of a completion, and the action the response parser makes of them
ResponseTexts == {"<execute_bash>ls</execute_bash>", "<finish></finish>",
                  "What next?"}

ParseAction(t) ==
    CASE t = "<execute_bash>ls</execute_bash>" -> "CmdRunAction"
      [] t = "<finish></finish>" -> "AgentFinishAction"
      [] OTHER -> "MessageAction"

\* mutation of NextAttempt: a failure uses up two attempts
NextAttemptTwice(a) == a + 2

\* mutation of NextAttempt: a failure uses up no attempt
NextAttemptStuck(a) == a

\* attempt += 1
NextAttempt(a) == a + 1

\* response = None, and the test "not response"
NoResponse == [try |-> 0, text |-> "None"]

Falsy(r) == r.text \in {"None", ""}

\* completion requests among the outcomes in trace
Requests(tr) == {k \in 1..Len(tr) :
                    tr[k] \in {"completion", "empty", "ContextWindowExceededError",
                               "OtherError"}}

(***************************************************************************)
(* CodeActAgent.step                                                       *)
(***************************************************************************)
\* a step is about to be taken on some state
InitAgent ==
    /\ Idle(TRUE, FALSE, TRUE, TRUE, TRUE)
    /\ latest_user_message \in UserMessages
    /\ messages = <<>>
    /\ attempt = 0
    /\ response = NoResponse
    /\ apc = "start"
    /\ result = [kind |-> "none", val |-> "none"]
    /\ trace = <<>>
    /\ tries = 0
    /\ exhausted = FALSE
    /\ condIn = <<>>
    /\ condCut = 0
    /\ condOutcome = "none"
    /\ summIn = <<>>
    /\ emptyCount = 0

condVars == <<condIn, condCut, condOutcome, summIn>>

\* step: the exit check and _get_messages
StepStart ==
    /\ apc = "start"
    /\ IF latest_user_message # "None" /\ Strip(latest_user_message) = "/exit"
       THEN /\ result' = [kind |-> "return", val |-> "AgentFinishAction"]
            /\ apc' = "returned"
            /\ UNCHANGED messages
       ELSE /\ messages' \in MessageSeqs
            /\ apc' = "loop"
            /\ UNCHANGED result
    /\ UNCHANGED <<latest_user_message, attempt, response, trace, tries,
                   exhausted, condVars, emptyCount, notAgentVars>>

\* mutation of Attempt: the except clause catches every exception
AttemptCatchesAll ==
    /\ apc = "loop"
    /\ IF ~(Falsy(response) /\ attempt < AttemptsToCondense)
       THEN /\ apc' = "parse"
            /\ exhausted' = Falsy(response)
            /\ UNCHANGED <<response, trace, tries, result, emptyCount>>
       ELSE /\ tries' = tries + 1
            /\ UNCHANGED exhausted
            /\ \/ \* is_over_token_limit(messages): TokenLimitExceededError
                  /\ trace' = Append(trace, "TokenLimitExceededError")
                  /\ apc' = "except"
                  /\ UNCHANGED <<response, result, emptyCount>>
               \/ \* completion raises ContextWindowExceededError
                  /\ trace' = Append(trace, "ContextWindowExceededError")
                  /\ apc' = "except"
                  /\ UNCHANGED <<response, result, emptyCount>>
               \/ \* completion raises another exception
                  /\ trace' = Append(trace, "OtherError")
                  /\ apc' = "except"
                  /\ UNCHANGED <<response, result, emptyCount>>
               \/ \* completion returns a response
                  \E t \in ResponseTexts :
                     /\ trace' = Append(trace, "completion")
                     /\ response' = [try |-> tries + 1, text |-> t]
                     /\ apc' = "loop"
                     /\ UNCHANGED <<result, emptyCount>>
               \/ \* completion returns an empty response
                  /\ emptyCount < MaxEmpty
                  /\ emptyCount' = emptyCount + 1
                  /\ trace' = Append(trace, "empty")
                  /\ response' = [try |-> tries + 1, text |-> ""]
                  /\ apc' = "loop"
                  /\ UNCHANGED result
    /\ UNCHANGED <<latest_user_message, messages, attempt, condVars, notAgentVars>>

\* step: the test of the while loop and the try block
Attempt ==
    /\ apc = "loop"
    /\ IF ~(Falsy(response) /\ attempt < AttemptsToCondense)
       THEN /\ apc' = "parse"
            /\ exhausted' = Falsy(response)
            /\ UNCHANGED <<response, trace, tries, result, emptyCount>>
       ELSE /\ tries' = tries + 1
            /\ UNCHANGED exhausted
            /\ \/ \* is_over_token_limit(messages): TokenLimitExceededError
                  /\ trace' = Append(trace, "TokenLimitExceededError")
                  /\ apc' = "except"
                  /\ UNCHANGED <<response, result, emptyCount>>
               \/ \* completion raises ContextWindowExceededError
                  /\ trace' = Append(trace, "ContextWindowExceededError")
                  /\ apc' = "except"
                  /\ UNCHANGED <<response, result, emptyCount>>
               \/ \* completion raises another exception
                  /\ trace' = Append(trace, "OtherError")
                  /\ result' = [kind |-> "raise", val |-> "OtherError"]
                  /\ apc' = "raised"
                  /\ UNCHANGED <<response, emptyCount>>
               \/ \* completion returns a response
                  \E t \in ResponseTexts :
                     /\ trace' = Append(trace, "completion")
                     /\ response' = [try |-> tries + 1, text |-> t]
                     /\ apc' = "loop"
                     /\ UNCHANGED <<result, emptyCount>>
               \/ \* completion returns an empty response
                  /\ emptyCount < MaxEmpty
                  /\ emptyCount' = emptyCount + 1
                  /\ trace' = Append(trace, "empty")
                  /\ response' = [try |-> tries + 1, text |-> ""]
                  /\ apc' = "loop"
                  /\ UNCHANGED result
    /\ UNCHANGED <<latest_user_message, messages, attempt, condVars, notAgentVars>>

\* mutation of Summarize: SummarizeError is swallowed and the loop goes on
SummarizeSwallowsError ==
    /\ condIn' = messages
    /\ IF Len(messages) <= 2
       THEN /\ condOutcome' = "SummarizeError"
            /\ condCut' = 0
            /\ summIn' = <<>>
            /\ trace' = Append(trace, "SummarizeError")
            /\ apc' = "loop"
            /\ UNCHANGED result
            /\ UNCHANGED messages
       ELSE LET c == Cutoff(messages)
                q == SequenceToSummarize(messages, c)
            IN  /\ condCut' = c
                /\ IF TooFewToSummarize(Len(q))
                   THEN /\ condOutcome' = "SummarizeError"
                        /\ summIn' = <<>>
                        /\ trace' = Append(trace, "SummarizeError")
                        /\ apc' = "loop"
                        /\ UNCHANGED result
                        /\ UNCHANGED messages
                   ELSE /\ summIn' = q
                        /\ \/ \E t \in 1..MaxSummaryTok :
                                 /\ messages' = NewMessages(messages, c,
                                                    SummaryMessage(q, t))
                                 /\ condOutcome' = "ok"
                                 /\ trace' = Append(trace, "condensed")
                                 /\ apc' = "loop"
                                 /\ UNCHANGED result
                           \/ /\ condOutcome' = "SummarizerError"
                              /\ trace' = Append(trace, "SummarizerError")
                              /\ result' = [kind |-> "raise",
                                            val |-> "SummarizerError"]
                              /\ apc' = "raised"
                              /\ UNCHANGED messages

\* summarize_messages_inplace(messages): SummarizeError, or the summarizer
\* is called and returns a summary of t tokens or raises
Summarize ==
    /\ condIn' = messages
    /\ IF Len(messages) <= 2
       THEN /\ condOutcome' = "SummarizeError"
            /\ condCut' = 0
            /\ summIn' = <<>>
            /\ trace' = Append(trace, "SummarizeError")
            /\ result' = [kind |-> "raise", val |-> "SummarizeError"]
            /\ apc' = "raised"
            /\ UNCHANGED messages
       ELSE LET c == Cutoff(messages)
                q == SequenceToSummarize(messages, c)
            IN  /\ condCut' = c
                /\ IF TooFewToSummarize(Len(q))
                   THEN /\ condOutcome' = "SummarizeError"
                        /\ summIn' = <<>>
                        /\ trace' = Append(trace, "SummarizeError")
                        /\ result' = [kind |-> "raise",
                                      val |-> "SummarizeError"]
                        /\ apc' = "raised"
                        /\ UNCHANGED messages
                   ELSE /\ summIn' = q
                        /\ \/ \E t \in 1..MaxSummaryTok :
                                 /\ messages' = NewMessages(messages, c,
                                                    SummaryMessage(q, t))
                                 /\ condOutcome' = "ok"
                                 /\ trace' = Append(trace, "condensed")
                                 /\ apc' = "loop"
                                 /\ UNCHANGED result
                           \/ /\ condOutcome' = "SummarizerError"
                              /\ trace' = Append(trace, "SummarizerError")
                              /\ result' = [kind |-> "raise",
                                            val |-> "SummarizerError"]
                              /\ apc' = "raised"
                              /\ UNCHANGED messages

\* step: the except clause for the context window and token limit errors
Except ==
    /\ apc = "except"
    /\ attempt' = NextAttempt(attempt)
    /\ \/ \* is_over_token_limit(messages)
          Summarize
       \/ \* not over the limit
          /\ trace' = Append(trace, "ContextWindowLimitExceededError")
          /\ result' = [kind |-> "raise",
                        val |-> "ContextWindowLimitExceededError"]
          /\ apc' = "raised"
          /\ UNCHANGED <<messages, condVars>>
    /\ UNCHANGED <<latest_user_message, response, tries, exhausted,
                   emptyCount, notAgentVars>>

\* step: return self.action_parser.parse(response); the parser reads
\* response.choices, which None does not have
Parse ==
    /\ apc = "parse"
    /\ IF Falsy(response)
       THEN /\ result' = [kind |-> "raise", val |-> "AttributeError"]
            /\ apc' = "raised"
       ELSE /\ result' = [kind |-> "return", val |-> ParseAction(response.text)]
            /\ apc' = "returned"
    /\ UNCHANGED <<latest_user_message, messages, attempt, response, trace,
                   tries, exhausted, condVars, emptyCount, notAgentVars>>

NextAgent ==
    \/ StepStart
    \/ Attempt
    \/ Except
    \/ Parse

SpecAgent == InitAgent /\ [][NextAgent]_vars

(***************************************************************************)
(* Properties of the control loop.                                         *)
(***************************************************************************)
ErrorEntries(h) == {j \in 1..Len(h) : h[j].obs = "AgentErrorObservation"}

\* C1: with an iteration ceiling of MaxIterations, _run invokes step with
\* the indices 0, 1, ... in order and never more than MaxIterations times;
\* it raises only on a fatal condition; and when it has returned and the
\* agent never returned a finish action, step was invoked exactly
\* MaxIterations times, nothing was raised and the task state is not
\* FINISHED.
ThmC1_CeilingSteps ==
    /\ \A k \in 1..Len(stepCalls) : stepCalls[k] = k - 1
    /\ Len(stepCalls) <= MaxIterations
    /\ (pc = "raised" => fatalAt # -1)
    /\ (pc = "done" /\ finishAt = -1 =>
           /\ Len(stepCalls) = MaxIterations
           /\ exc = "none"
           /\ task_state # "FINISHED")

WitC1_CeilingReached ==
    /\ pc = "done"
    /\ finishAt = -1
    /\ Len(stepCalls) = MaxIterations
    /\ Len(history) >= MaxIterations

\* C2: once the agent has returned a finish action at iteration finishAt,
\* agent.step is invoked for no later iteration of that run.
CexC2_NoStepAfterFinish ==
    finishAt # -1 => \A k \in 1..Len(agentCalls) : agentCalls[k] <= finishAt

\* C3: an exception caught in iteration k (from agent.step, from a task
\* mutation or from action.run) does not leave step: the run raises only for
\* a fatal condition; the step records (action, AgentErrorObservation) as
\* the last history entry; every such iteration has its error entry in
\* history; and the loop goes on to iteration k + 1.
ThmC3_ErrorsRecorded ==
    /\ (pc = "raised" => exc \in FatalKinds /\ fatalAt \notin errIters)
    /\ (pc = "obs_yield" /\ i \in errIters /\ hasState =>
           /\ Len(history) > 0
           /\ history[Len(history)] =
                 [act |-> action, obs |-> "AgentErrorObservation"])
    /\ (pc \in {"loop_head", "done"} /\ hasState =>
           Cardinality(ErrorEntries(history)) = Cardinality(errIters))
    /\ \A k \in errIters :
          (k < i /\ pc # "loop_head" /\ k + 1 < MaxIterations) =>
              k + 1 \in Range(stepCalls)

WitC3_NextIterationAfterError ==
    /\ pc = "step_begin"
    /\ i > 0
    /\ (i - 1) \in errIters
    /\ ErrorEntries(history) # {}

\* C4: once a fatal condition has occurred (authentication error from the
\* agent, no action from the agent, num_of_chars above max_chars) the
\* exception has left step and _run, no later iteration is started, and
\* history is what it was when the condition occurred.
ThmC4_FatalPropagates ==
    fatalAt # -1 =>
       /\ pc = "raised"
       /\ exc \in FatalKinds
       /\ history = fatalHist
       /\ stepCalls[Len(stepCalls)] = fatalAt
       /\ Len(agentCalls) <= fatalAt + 1

WitC4_FatalAfterHistory ==
    /\ pc = "raised"
    /\ exc = "AgentNoActionError"
    /\ fatalAt > 0
    /\ Len(history) > 0

(***************************************************************************)
(* Properties of CodeActAgent.step and of the memory condenser.            *)
(***************************************************************************)
ContextErrors == {"TokenLimitExceededError", "ContextWindowExceededError"}

\* the last summarize_messages_inplace raised SummarizeError before any call
\* of the summarizer, and the step raised it to its caller
CondenseFailed ==
    /\ condOutcome = "SummarizeError"
    /\ summIn = <<>>
    /\ messages = condIn
    /\ apc = "raised"
    /\ result = [kind |-> "raise", val |-> "SummarizeError"]

\* C5: when attempt 1 failed with a context-window or token-limit condition
\* and the condensation succeeded, the step goes on to a second attempt;
\* when that attempt's completion succeeds, nothing is raised and the step
\* returns the action parsed from the response of attempt 2.
ThmC5_SecondAttemptReturns ==
    /\ (Len(trace) = 2 /\ trace[1] \in ContextErrors /\ trace[2] = "condensed"
           => apc = "loop" /\ result.kind = "none")
    /\ (Len(trace) = 3 /\ trace[1] \in ContextErrors /\ trace[2] = "condensed"
            /\ trace[3] = "completion"
           => /\ apc \in {"loop", "parse", "returned"}
              /\ response.try = 2
              /\ response.text \in ResponseTexts
              /\ result.kind # "raise"
              /\ (apc = "returned" =>
                     result = [kind |-> "return",
                               val |-> ParseAction(response.text)]))

WitC5_ReturnedFromSecondAttempt ==
    /\ trace = <<"TokenLimitExceededError", "condensed", "completion">>
    /\ apc = "returned"
    /\ response.try = 2
    /\ result = [kind |-> "return", val |-> "CmdRunAction"]

\* C6: in a step whose completions succeed or fail with a context-window or
\* token-limit condition, at most AttemptsToCondense completion requests are
\* made.
ThmC6_BoundedCompletions ==
    (\A k \in 1..Len(trace) : trace[k] # "empty") =>
        Cardinality(Requests(trace)) <= AttemptsToCondense

WitC6_BudgetUsed ==
    /\ \A k \in 1..Len(trace) : trace[k] # "empty"
    /\ Cardinality(Requests(trace)) = AttemptsToCondense
    /\ trace[1] = "ContextWindowExceededError"

\* C7: when the while loop ends without a response after every attempt
\* failed with a context-window or token-limit condition, the step ends by
\* raising ContextWindowLimitExceededError.
CexC7_ExhaustedRaisesContextWindowLimit ==
    (exhausted /\ emptyCount = 0 /\ apc \in {"returned", "raised"}) =>
        result = [kind |-> "raise", val |-> "ContextWindowLimitExceededError"]

\* C8: a condensation of messages with a positive buffer token total and a
\* candidate range of more than one message returns a sequence of strictly
\* fewer tokens than its input, whatever the summary; on any other input it
\* fails with SummarizeError.
CexC8_CondensationReducesTokens ==
    condOutcome \in {"ok", "SummarizeError"} =>
        IF /\ Len(condIn) > 2
           /\ BufferTokenCount(condIn) > 0
           /\ Len(SequenceToSummarize(condIn, Cutoff(condIn))) > 1
        THEN condOutcome = "ok" /\ TokenCount(messages) < TokenCount(condIn)
        ELSE condOutcome = "SummarizeError"

\* C9: a condensation of messages without buffer messages, or whose range
\* [2, cutoff) holds at most one message, raises SummarizeError without a
\* call of the summarizer; so it does on every [system, example] and
\* [system, example, one message].
ThmC9_CondenseFailures ==
    condOutcome # "none" =>
        /\ (Len(condIn) <= 3 => CondenseFailed)
        /\ ((\/ Len(condIn) <= 2
             \/ Len(SequenceToSummarize(condIn, Cutoff(condIn))) <= 1)
               => CondenseFailed)

WitC9_SingleMessageFails ==
    /\ CondenseFailed
    /\ Len(condIn) = 3
    /\ condIn[3].role = "assistant"
    /\ condIn[3].tok = MaxTok

\* C10: after a condensation that succeeded with cutoff condCut, messages is
\* the first two messages of its input, one assistant message that
\* summarizes input[2:condCut], which is what the summarizer was given, and
\* then input[condCut:] in the original order.
ThmC10_CondensedShape ==
    condOutcome = "ok" =>
        /\ condCut \in 2..Len(condIn)
        /\ Len(messages) = 3 + Len(condIn) - condCut
        /\ messages[1] = condIn[1]
        /\ messages[2] = condIn[2]
        /\ messages[3].role = "assistant"
        /\ messages[3].kind = "summary"
        /\ messages[3].ids = UNION {condIn[j].ids : j \in 3..condCut}
        /\ summIn = [j \in 1..(condCut - 2) |-> condIn[j + 2]]
        /\ \A j \in 1..(Len(condIn) - condCut) :
              messages[3 + j] = condIn[condCut + j]

WitC10_CondensedWithTail ==
    /\ condOutcome = "ok"
    /\ condCut >= 4
    /\ Len(condIn) >= condCut + 2
    /\ Len(trace) = 2

(***************************************************************************)
(* CodeActPlanningResponseParser                                           *)
(* (agenthub/codeact_planning_agent/action_parser.py).                     *)
(*                                                                         *)
(* A response text is a sequence of tokens: the opening and closing        *)
(* delimiters of the tags, words, a digit and white space.  No token but a *)
(* delimiter holds '<', so a regular-expression search, a substring test   *)
(* and str.replace on the text act on whole tokens.                        *)
(***************************************************************************)
MaxText == 4            \* tokens of a response text

\* the tags parse_response closes, in the order of its for loop
AutoCloseTags == <<"execute_bash", "execute_ipython", "execute_browse",
                   "save_plan", "plan_step">>

\* the tags the matchers search for
ParserTags == Range(AutoCloseTags) \cup {"finish"}

OpenTag(tag) == "<" \o tag \o ">"
CloseTag(tag) == "</" \o tag \o ">"

WhiteSpace == {" "}
Digits == {"1"}
Words == {"ls", "exit"}

Tokens == {OpenTag(t) : t \in ParserTags} \cup {CloseTag(t) : t \in ParserTags}
            \cup WhiteSpace \cup Digits \cup Words

Texts == UNION {[1..n -> Tokens] : n \in 0..MaxText}

\* x in s
Contains(s, x) == \E k \in 1..Len(s) : s[k] = x

\* index of the first x in s at or after from, of the last x; 0 when none
FirstIdx(s, x, from) ==
    LET I == {k \in from..Len(s) : s[k] = x}
    IN  IF I = {} THEN 0 ELSE CHOOSE k \in I : \A m \in I : k <= m

LastIdx(s, x, from) ==
    LET I == {k \in from..Len(s) : s[k] = x}
    IN  IF I = {} THEN 0 ELSE CHOOSE k \in I : \A m \in I : k >= m

NoMatch == [found |-> FALSE, start |-> 0, end |-> 0]

\* re.search(r'<tag>(.*?)</tag>', s, re.DOTALL): the leftmost opening
\* delimiter and the first closing delimiter after it
SearchLazy(s, tag) ==
    LET a == FirstIdx(s, OpenTag(tag), 1)
        b == IF a = 0 THEN 0 ELSE FirstIdx(s, CloseTag(tag), a + 1)
    IN  IF b = 0 THEN NoMatch ELSE [found |-> TRUE, start |-> a, end |-> b]

\* re.search(r'<tag>(.*)</tag>', s, re.DOTALL): the leftmost opening
\* delimiter and the last closing delimiter after it
SearchGreedy(s, tag) ==
    LET a == FirstIdx(s, OpenTag(tag), 1)
        b == IF a = 0 THEN 0 ELSE LastIdx(s, CloseTag(tag), a + 1)
    IN  IF b = 0 THEN NoMatch ELSE [found |-> TRUE, start |-> a, end |-> b]

\* match.group(0) and match.group(1)
Group0(s, m) == SubSeq(s, m.start, m.end)
Group1(s, m) == SubSeq(s, m.start + 1, m.end - 1)

\* str.replace(sub, ''): every occurrence of sub, left to right
RECURSIVE Replace(_, _)
Replace(s, sub) ==
    IF Len(sub) = 0 \/ Len(s) < Len(sub) THEN s
    ELSE IF SubSeq(s, 1, Len(sub)) = sub
         THEN Replace(SubSeq(s, Len(sub) + 1, Len(s)), sub)
         ELSE <<Head(s)>> \o Replace(Tail(s), sub)

\* str.strip()
RECURSIVE StripLeft(_)
StripLeft(s) ==
    IF s # <<>> /\ Head(s) \in WhiteSpace THEN StripLeft(Tail(s)) ELSE s

RECURSIVE StripRight(_)
StripRight(s) ==
    IF s # <<>> /\ s[Len(s)] \in WhiteSpace
    THEN StripRight(SubSeq(s, 1, Len(s) - 1)) ELSE s

StripText(s) == StripRight(StripLeft(s))

\* int(step_group) succeeds on a non-empty run of digits
IsInt(s) == s # <<>> /\ \A k \in 1..Len(s) : s[k] \in Digits

\* the action variants; step <<>> stands for step=None, and the value
\* ValueError for the exception int() raises
ParsedAction(kind, body, thought, step, wait) ==
    [kind |-> kind, body |-> body, thought |-> thought, step |-> step,
     wait_for_response |-> wait]

ValueError == ParsedAction("ValueError", <<>>, <<>>, <<>>, FALSE)

\* parse_response: append the closing delimiter of each tag that is opened
\* and nowhere closed
RECURSIVE AutoClose(_, _)
AutoClose(s, k) ==
    IF k > Len(AutoCloseTags) THEN s
    ELSE LET tag == AutoCloseTags[k]
         IN  IF Contains(s, OpenTag(tag)) /\ ~Contains(s, CloseTag(tag))
             THEN AutoClose(Append(s, CloseTag(tag)), k + 1)
             ELSE AutoClose(s, k + 1)

parse_response(c) == AutoClose(c, 1)

\* self.action_parsers, in order
action_parsers_cmd_first ==
    <<"CmdRun", "Finish", "IPythonRunCell", "AgentDelegate", "SavePlan",
      "PlanStep">>

action_parsers ==
    <<"Finish", "CmdRun", "IPythonRunCell", "AgentDelegate", "SavePlan",
      "PlanStep">>

\* check_condition of each matcher: the search it stores
check_condition(p, s) ==
    CASE p = "Finish" -> SearchGreedy(s, "finish")
      [] p = "CmdRun" -> SearchLazy(s, "execute_bash")
      [] p = "IPythonRunCell" -> SearchLazy(s, "execute_ipython")
      [] p = "AgentDelegate" -> SearchGreedy(s, "execute_browse")
      [] p = "SavePlan" -> SearchLazy(s, "save_plan")
      [] p = "PlanStep" -> SearchLazy(s, "plan_step")

\* the search for the step annotation the matcher stores beside its own
plan_step(s) == SearchLazy(s, "plan_step")

\* a variant that leaves the step unset when the annotation is no integer
WithStepDefaulted(s, thought, kind, body) ==
    LET ps == plan_step(s) IN
    IF ~ps.found THEN ParsedAction(kind, body, thought, <<>>, FALSE)
    ELSE LET step_group == StripText(Group1(s, ps))
             thought2 == StripText(Replace(thought, Group0(s, ps)))
         IN  ParsedAction(kind, body, thought2,
                          IF IsInt(step_group) THEN step_group ELSE <<>>,
                          FALSE)

\* thought, step of a matcher that takes a step annotation: the annotation
\* is cut out of the thought and converted with int()
WithStep(s, thought, kind, body) ==
    LET ps == plan_step(s) IN
    IF ~ps.found THEN ParsedAction(kind, body, thought, <<>>, FALSE)
    ELSE LET step_group == StripText(Group1(s, ps))
             thought2 == StripText(Replace(thought, Group0(s, ps)))
         IN  IF IsInt(step_group)
             THEN ParsedAction(kind, body, thought2, step_group, FALSE)
             ELSE ValueError

\* CodeActPlanningActionParserFinish.parse
ParseFinish(s) ==
    LET m == SearchGreedy(s, "finish")
    IN  ParsedAction("AgentFinishAction", <<>>,
                     StripText(Replace(s, Group0(s, m))), <<>>, FALSE)

\* command_group.strip() == 'exit'
IsExitUntrimmed(g) == g = <<"exit">>

IsExit(g) == StripText(g) = <<"exit">>

\* CodeActPlanningActionParserCmdRun.parse
ParseCmdRun(s) ==
    LET m == SearchLazy(s, "execute_bash")
        thought == StripText(Replace(s, Group0(s, m)))
        command_group == StripText(Group1(s, m))
    IN  IF IsExit(Group1(s, m))
        THEN ParsedAction("AgentFinishAction", <<>>, <<>>, <<>>, FALSE)
        ELSE WithStep(s, thought, "CmdRunAction", command_group)

\* CodeActPlanningActionParserIPythonRunCell.parse
ParseIPythonRunCell(s) ==
    LET m == SearchLazy(s, "execute_ipython")
        code_group == StripText(Group1(s, m))
        thought == StripText(Replace(s, Group0(s, m)))
    IN  WithStep(s, thought, "IPythonRunCellAction", code_group)

\* CodeActPlanningActionParserAgentDelegate.parse: the task is built from
\* the thought before the annotation is cut out of it, and the action
\* carries no thought of its own
ParseAgentDelegate(s) ==
    LET m == SearchGreedy(s, "execute_browse")
        thought == StripText(Replace(s, Group0(s, m)))
        browse_actions == StripText(Group1(s, m))
        task == thought \o <<". I should start with: ">> \o browse_actions
        a == WithStep(s, thought, "AgentDelegateAction", task)
    IN  IF a.kind = "ValueError" THEN a ELSE [a EXCEPT !.thought = <<>>]

\* CodeActPlanningActionParserSavePlan.parse (texts here hold no newline,
\* so plan_group.split('\n') is the one-line plan)
ParseSavePlan(s) ==
    LET m == SearchLazy(s, "save_plan")
        plan_group == StripText(Group1(s, m))
        thought == StripText(Replace(s, Group0(s, m)))
    IN  ParsedAction("SavePlanAction", plan_group, thought, <<>>, FALSE)

\* CodeActPlanningActionParserPlanStep.parse
ParsePlanStep(s) ==
    LET m == SearchLazy(s, "plan_step")
        step_group == StripText(Group1(s, m))
        thought == StripText(Replace(s, Group0(s, m)))
    IN  IF IsInt(step_group)
        THEN ParsedAction("PlanStepAction", <<>>, thought, step_group, FALSE)
        ELSE ValueError

\* CodeActPlanningActionParserMessage.parse
ParseMessage(s) == ParsedAction("MessageAction", s, <<>>, <<>>, TRUE)

ParseBy(p, s) ==
    CASE p = "Finish" -> ParseFinish(s)
      [] p = "CmdRun" -> ParseCmdRun(s)
      [] p = "IPythonRunCell" -> ParseIPythonRunCell(s)
      [] p = "AgentDelegate" -> ParseAgentDelegate(s)
      [] p = "SavePlan" -> ParseSavePlan(s)
      [] p = "PlanStep" -> ParsePlanStep(s)

\* parse_action: the first matcher whose check_condition holds, else the
\* default matcher
RECURSIVE ParseActionFrom(_, _)
ParseActionFrom(s, k) ==
    IF k > Len(action_parsers)
    THEN [by |-> "Message", action |-> ParseMessage(s)]
    ELSE IF check_condition(action_parsers[k], s).found
         THEN [by |-> action_parsers[k],
               action |-> ParseBy(action_parsers[k], s)]
         ELSE ParseActionFrom(s, k + 1)

parse_action(s) == ParseActionFrom(s, 1)

\* parse, as a function of the response text
parse(c) == parse_action(parse_response(c)).action

\* a response arrives at the parser
InitParser ==
    /\ Idle(TRUE, TRUE, FALSE, TRUE, TRUE)
    /\ content \in Texts
    /\ action_str = <<>>
    /\ parsed = [by |-> "none", action |-> [kind |-> "none"]]
    /\ ppc = "parse_response"

\* parse: action_str = self.parse_response(response)
DoParseResponse ==
    /\ ppc = "parse_response"
    /\ action_str' = parse_response(content)
    /\ ppc' = "parse_action"
    /\ UNCHANGED <<content, parsed, notParserVars>>

\* parse: return self.parse_action(action_str)
DoParseAction ==
    /\ ppc = "parse_action"
    /\ parsed' = parse_action(action_str)
    /\ ppc' = "done"
    /\ UNCHANGED <<content, action_str, notParserVars>>

NextParser ==
    \/ DoParseResponse
    \/ DoParseAction

SpecParser == InitParser /\ [][NextParser]_vars

(***************************************************************************)
(* Properties of the response parser.                                      *)
(***************************************************************************)
\* s holds a well-formed pair of the tag's delimiters
HasPair(s, tag) ==
    \E a \in 1..Len(s) : \E b \in (a + 1)..Len(s) :
        s[a] = OpenTag(tag) /\ s[b] = CloseTag(tag)

\* the matcher the priority order finish > command > code-cell > delegate >
\* save_plan > plan_step > message selects for s
FirstAccepting(s) ==
    IF HasPair(s, "finish") THEN "Finish"
    ELSE IF HasPair(s, "execute_bash") THEN "CmdRun"
    ELSE IF HasPair(s, "execute_ipython") THEN "IPythonRunCell"
    ELSE IF HasPair(s, "execute_browse") THEN "AgentDelegate"
    ELSE IF HasPair(s, "save_plan") THEN "SavePlan"
    ELSE IF HasPair(s, "plan_step") THEN "PlanStep"
    ELSE "Message"

\* the actions a matcher can return (ValueError: its int() raised)
KindsOf(m) ==
    CASE m = "Finish" -> {"AgentFinishAction"}
      [] m = "CmdRun" -> {"CmdRunAction", "AgentFinishAction", "ValueError"}
      [] m = "IPythonRunCell" -> {"IPythonRunCellAction", "ValueError"}
      [] m = "AgentDelegate" -> {"AgentDelegateAction", "ValueError"}
      [] m = "SavePlan" -> {"SavePlanAction"}
      [] m = "PlanStep" -> {"PlanStepAction", "ValueError"}
      [] m = "Message" -> {"MessageAction"}

\* C11: the result of a parse is that of the first matcher, in the order
\* finish > command > code-cell > delegate > save_plan > plan_step >
\* message, whose condition holds on the text; a text with a finish tag and
\* a command tag yields a finish action, never a run-command action; a text
\* no matcher accepts yields a message action whose content is the entire
\* text and that awaits a reply.
ThmC11_FirstMatcherWins ==
    ppc = "done" =>
        /\ parsed.by = FirstAccepting(action_str)
        /\ parsed.action.kind \in KindsOf(FirstAccepting(action_str))
        /\ (HasPair(content, "finish") /\ Contains(content, OpenTag("execute_bash")))
              => parsed.action.kind = "AgentFinishAction"
        /\ FirstAccepting(action_str) = "Message"
              => parsed.action = ParsedAction("MessageAction", content, <<>>,
                                              <<>>, TRUE)

\* a text with a finish tag and a command tag was parsed to a finish action
WitC11_FinishBeatsCommand ==
    /\ ppc = "done"
    /\ HasPair(content, "finish")
    /\ HasPair(action_str, "execute_bash")
    /\ parsed.by = "Finish"
    /\ parsed.action.kind = "AgentFinishAction"

\* the action tags of the wire protocol that occur in the texts
WireTags == {"execute_bash", "execute_ipython", "execute_browse", "finish"}

\* C12: for every action tag of the wire protocol, a text that holds the
\* opening tag and not the closing tag parses to the same action as that
\* text with the closing tag appended.
CexC12_UnclosedParsesAsClosed ==
    ppc = "done" =>
        \A tag \in WireTags :
            (Contains(content, OpenTag(tag)) /\ ~Contains(content, CloseTag(tag)))
                => parsed.action = parse(Append(content, CloseTag(tag)))

\* the body of the command tag of s is "exit" between white space
CommandBodyIsExit(s) ==
    \E a \in 1..Len(s) : \E b \in (a + 1)..Len(s) :
        /\ s[a] = OpenTag("execute_bash")
        /\ \A k \in 1..(a - 1) : s[k] # OpenTag("execute_bash")
        /\ s[b] = CloseTag("execute_bash")
        /\ \A k \in (a + 1)..(b - 1) : s[k] # CloseTag("execute_bash")
        /\ \E e \in (a + 1)..(b - 1) :
              /\ s[e] = "exit"
              /\ \A k \in ((a + 1)..(b - 1)) \ {e} : s[k] \in WhiteSpace

\* C13: a response whose command body is "exit" after trimming parses to a
\* finish action, never to a run-command action, whatever thought text or
\* other tags surround the command tag.
ThmC13_ExitIsFinish ==
    (ppc = "done" /\ CommandBodyIsExit(action_str))
        => parsed.action.kind = "AgentFinishAction"

\* the command matcher turned an untrimmed "exit" with a thought before
\* the tag into a finish action
WitC13_ExitWithThought ==
    /\ ppc = "done"
    /\ CommandBodyIsExit(action_str)
    /\ parsed.by = "CmdRun"
    /\ parsed.action.kind = "AgentFinishAction"
    /\ Len(content) = MaxText
    /\ content[1] \in Words
    /\ Contains(content, " ")

(***************************************************************************)
(* Message assembly: _get_messages, get_action_message and                 *)
(* get_observation_message of CodeActAgent                                 *)
(* (agenthub/codeact_agent/codeact_agent.py) and of CodeActSWEAgent        *)
(* (agenthub/codeact_swe_agent/codeact_swe_agent.py).                      *)
(*                                                                         *)
(* A content is the sequence of its lines (the text split at '\n').        *)
(***************************************************************************)
MaxSteps == 2           \* (action, observation) pairs recorded in history
MaxLines == 3           \* lines of the content of an observation

\* the character budget of truncate_content, counted in lines
MaxMessageChars == 2

AgentClasses == {"CodeActAgent", "CodeActSWEAgent"}

ImageLine == "![image](data:image/png;base64,AAAA)"
Placeholder == "![image](data:image/png;base64, ...) already displayed to user"
TruncationMarker == "[... Observation truncated due to length ...]"

\* lines of an observation's content, and the contents
Lines == {"a.txt", ImageLine}
Contents == UNION {[1..n -> Lines] : n \in 0..MaxLines}

\* '![image](data:image/png;base64,' in line
HasImage(line) == line \in {ImageLine, Placeholder}

\* the events of the history
ActionEvent(kind, source, thought, body) ==
    [type |-> "Action", kind |-> kind, source |-> source, thought |-> thought,
     body |-> body, content |-> <<>>, command_id |-> 0, exit_code |-> 0]

ObservationEvent(kind, c, n, e) ==
    [type |-> "Observation", kind |-> kind, source |-> "agent", thought |-> "",
     body |-> "", content |-> c, command_id |-> n, exit_code |-> e]

\* the (action, observation) pairs a step records
StepPairs ==
    {<<ActionEvent("CmdRunAction", "agent", "think", "ls"),
       ObservationEvent("CmdOutputObservation", c, 7, e)>> :
         c \in Contents, e \in {0, 1}}
    \cup {<<ActionEvent("IPythonRunCellAction", "agent", "think", "plot()"),
            ObservationEvent("IPythonRunCellObservation", c, 0, 0)>> :
              c \in Contents}
    \cup {<<ActionEvent("AgentDelegateAction", "agent", "think", "browse"),
            ObservationEvent("AgentDelegateObservation", c, 0, 0)>> :
              c \in {<<"{}">>, <<ImageLine>>}}
    \cup {<<ActionEvent("MessageAction", src, "", c),
            ObservationEvent("NullObservation", <<>>, 0, 0)>> :
              src \in {"user", "agent"}, c \in {"list files"}}
    \cup {<<ActionEvent("NullAction", "agent", "", ""),
            ObservationEvent("NullObservation", <<>>, 0, 0)>>}

\* truncate_content: a content within the budget is kept; of a longer one
\* the head and the tail are kept around a marker
truncate_content(c) ==
    IF Len(c) <= MaxMessageChars THEN c
    ELSE LET half == MaxMessageChars \div 2
         IN  SubSeq(c, 1, half) \o <<TruncationMarker>>
               \o SubSeq(c, Len(c) - half + 1, Len(c))

\* action_to_str
action_to_str(cls, a) ==
    CASE a.kind = "CmdRunAction" ->
            <<a.thought, "<execute_bash>", a.body, "</execute_bash>">>
      [] a.kind = "IPythonRunCellAction" ->
            <<a.thought, "<execute_ipython>", a.body, "</execute_ipython>">>
      [] a.kind = "AgentDelegateAction" /\ cls = "CodeActAgent" ->
            <<a.thought, "<execute_browse>", a.body, "</execute_browse>">>
      [] a.kind = "MessageAction" -> <<a.body>>
      [] OTHER -> <<"">>

NoMessage == [role |-> "none", content |-> <<>>]

\* the action kinds get_action_message turns into a message
MessageKinds(cls) ==
    IF cls = "CodeActAgent"
    THEN {"AgentDelegateAction", "CmdRunAction", "IPythonRunCellAction",
          "MessageAction"}
    ELSE {"CmdRunAction", "IPythonRunCellAction"}

get_action_message(cls, a) ==
    IF a.kind \in MessageKinds(cls)
    THEN [role |-> IF a.source = "user" THEN "user" ELSE "assistant",
          content |-> action_to_str(cls, a)]
    ELSE NoMessage

\* the loop over the lines that replaces base64 images with a placeholder
ReplaceImagesFirstOnly(c) ==
    [k \in 1..Len(c) |->
        IF HasImage(c[k]) /\ \A j \in 1..(k - 1) : ~HasImage(c[j])
        THEN Placeholder ELSE c[k]]

ReplaceImages(c) ==
    [k \in 1..Len(c) |-> IF HasImage(c[k]) THEN Placeholder ELSE c[k]]

CommandFooterSwapped(n, e) ==
    "[Command " \o ToString(e) \o " finished with exit code "
        \o ToString(n) \o "]"

CommandFooter(n, e) ==
    "[Command " \o ToString(n) \o " finished with exit code "
        \o ToString(e) \o "]"

get_observation_message(cls, obs) ==
    CASE obs.kind = "CmdOutputObservation" ->
            [role |-> "user",
             content |-> <<"OBSERVATION:">> \o truncate_content(obs.content)
                           \o <<CommandFooter(obs.command_id, obs.exit_code)>>]
      [] obs.kind = "IPythonRunCellObservation" ->
            [role |-> "user",
             content |-> truncate_content(
                            ReplaceImages(<<"OBSERVATION:">> \o obs.content))]
      [] obs.kind = "AgentDelegateObservation" /\ cls = "CodeActAgent" ->
            [role |-> "user",
             content |-> <<"OBSERVATION:">> \o truncate_content(obs.content)]
      [] OTHER -> NoMessage

\* the message of an event
EventToMessage(cls, ev) ==
    IF ev.type = "Action" THEN get_action_message(cls, ev)
    ELSE get_observation_message(cls, ev)

\* the two leading messages and the messages of the events, in order
RECURSIVE ProjectEvents(_, _)
ProjectEvents(cls, evs) ==
    IF evs = <<>> THEN <<>>
    ELSE LET m == EventToMessage(cls, Head(evs))
         IN  (IF m = NoMessage THEN <<>> ELSE <<m>>)
               \o ProjectEvents(cls, Tail(evs))

LeadingMessagesSwapped ==
    <<[role |-> "user", content |-> <<"EXAMPLE">>],
      [role |-> "system", content |-> <<"SYSTEM">>]>>

LeadingMessages ==
    <<[role |-> "system", content |-> <<"SYSTEM">>],
      [role |-> "user", content |-> <<"EXAMPLE">>]>>

\* the reminder appended to the latest user message
Reminder(cls, turns) ==
    <<"", "ENVIRONMENT REMINDER: You have " \o ToString(turns)
            \o " turns left to complete the task. When finished reply with <finish></finish>"
            \o (IF cls = "CodeActSWEAgent" THEN "." ELSE "")>>

LatestUserFirst(ms) ==
    LET I == {k \in 1..Len(ms) : ms[k].role = "user"}
    IN  IF I = {} THEN 0 ELSE CHOOSE k \in I : \A j \in I : k <= j

\* next((m for m in reversed(messages) if m['role'] == 'user'), None)
LatestUser(ms) ==
    LET I == {k \in 1..Len(ms) : ms[k].role = "user"}
    IN  IF I = {} THEN 0 ELSE CHOOSE k \in I : \A j \in I : k >= j

\* _get_messages
get_messages(cls, evs, max_iterations, iter) ==
    LET ms == LeadingMessages \o ProjectEvents(cls, evs)
        u == LatestUser(ms)
    IN  IF u = 0 THEN ms
        ELSE [ms EXCEPT ![u].content =
                 @ \o Reminder(cls, max_iterations - iter)]

\* state.iteration when the step after these events assembles
StateIteration(evs) == Len(evs) \div 2

\* an agent is about to take its first step on an empty history
InitAssembler ==
    /\ Idle(TRUE, TRUE, TRUE, FALSE, TRUE)
    /\ agent_class \in AgentClasses
    /\ events = <<>>
    /\ assembled = <<>>
    /\ mpc = "step"

\* step: messages = self._get_messages(state)
GetMessages ==
    /\ mpc = "step"
    /\ assembled' = get_messages(agent_class, events, MaxIterations,
                                 StateIteration(events))
    /\ mpc' = "act"
    /\ UNCHANGED <<agent_class, events, notMsgVars>>

\* the controller dispatches the action of the step and records the pair
RecordStep ==
    /\ mpc = "act"
    /\ Len(events) < 2 * MaxSteps
    /\ \E pr \in StepPairs : events' = events \o pr
    /\ mpc' = "step"
    /\ UNCHANGED <<agent_class, assembled, notMsgVars>>

NextAssembler ==
    \/ GetMessages
    \/ RecordStep

SpecAssembler == InitAssembler /\ [][NextAssembler]_vars

(***************************************************************************)
(* Properties of the message assembly.                                     *)
(***************************************************************************)
\* the line occurs in the content c
HasLine(c, line) == \E k \in 1..Len(c) : c[k] = line

\* p is the beginning of c
IsPrefix(p, c) == Len(p) <= Len(c) /\ SubSeq(c, 1, Len(p)) = p

\* the observations of the history whose content holds an image line
ImageObservations ==
    {j \in 1..Len(events) :
        /\ events[j].type = "Observation"
        /\ HasLine(events[j].content, ImageLine)}

\* C14 as stated: an observation in history whose content has a line with
\* an embedded base64 PNG image is rendered with the placeholder in place
\* of that line, and no assembled message contains the raw base64 payload.
CexC14_NoRawPayloadInMessages ==
    (mpc = "act" /\ ImageObservations # {}) =>
        \A k \in 1..Len(assembled) : ~HasLine(assembled[k].content, ImageLine)

\* the content c with the placeholder in place of each image line
WithPlaceholders(c) ==
    [k \in 1..Len(c) |-> IF c[k] = ImageLine THEN Placeholder ELSE c[k]]

\* C14 amended: a code-cell output (IPythonRunCellObservation) whose content
\* has a line with an embedded base64 PNG image is rendered with the
\* placeholder in place of that line (the rendering being cut by the
\* character budget like any other), and a raw payload in an assembled
\* message stems from a command output or a delegate output only.
ThmC14_CodeCellImagesReplaced ==
    mpc = "act" =>
        /\ (\A j \in ImageObservations :
                events[j].kind = "IPythonRunCellObservation")
              => \A k \in 1..Len(assembled) :
                    ~HasLine(assembled[k].content, ImageLine)
        /\ \A j \in ImageObservations :
              (/\ events[j].kind = "IPythonRunCellObservation"
               /\ Len(events[j].content) + 1 <= MaxMessageChars)
                 => \E k \in 1..Len(assembled) :
                       /\ assembled[k].role = "user"
                       /\ IsPrefix(<<"OBSERVATION:">>
                                     \o WithPlaceholders(events[j].content),
                                   assembled[k].content)

\* a code-cell output with two image lines was assembled
WitC14_ImageReplaced ==
    /\ mpc = "act"
    /\ \E j \in ImageObservations :
          /\ events[j].kind = "IPythonRunCellObservation"
          /\ events[j].content = <<ImageLine, ImageLine>>
    /\ \E j \in ImageObservations :
          /\ events[j].kind = "IPythonRunCellObservation"
          /\ Len(events[j].content) = 1
    /\ \E k \in 1..Len(assembled) : HasLine(assembled[k].content, Placeholder)

\* the command outputs recorded in history
CommandOutputs ==
    {j \in 1..Len(events) : events[j].kind = "CmdOutputObservation"}

\* 'OBSERVATION:' + newline + c + newline + '[Command N finished with exit
\* code E]' for the observation ev
ExpectedCommandText(ev) ==
    <<"OBSERVATION:">> \o ev.content
      \o <<"[Command " \o ToString(ev.command_id)
             \o " finished with exit code " \o ToString(ev.exit_code) \o "]">>

\* C15 as stated: after a run-command action is dispatched and its command
\* output (content c, command id N, exit code E) is recorded, the messages
\* assembled on the next step include a role-user message containing
\* 'OBSERVATION:' + newline + c + newline + '[Command N finished with exit
\* code E]'.
CexC15_CommandOutputInMessages ==
    mpc = "act" =>
        \A j \in CommandOutputs :
            \E k \in 1..Len(assembled) :
                /\ assembled[k].role = "user"
                /\ IsPrefix(ExpectedCommandText(events[j]), assembled[k].content)

\* C15 amended: the same, for a content c within the character budget of
\* truncate_content; a longer c is not included whole.
ThmC15_ShortCommandOutputInMessages ==
    mpc = "act" =>
        \A j \in CommandOutputs :
            Len(events[j].content) <= MaxMessageChars
              => \E k \in 1..Len(assembled) :
                    /\ assembled[k].role = "user"
                    /\ IsPrefix(ExpectedCommandText(events[j]),
                                assembled[k].content)

\* the step before recorded a command output of two lines with exit code
\* 1, and the messages of this step are assembled
WitC15_CommandOutputAssembled ==
    /\ mpc = "act"
    /\ Len(events) = 2 * MaxSteps
    /\ events[Len(events)].kind = "CmdOutputObservation"
    /\ events[Len(events)].content = <<"a.txt", "a.txt">>
    /\ events[Len(events)].exit_code = 1
    /\ events[Len(events) - 1].kind = "CmdRunAction"
    /\ assembled[Len(assembled)].role = "user"
    /\ IsPrefix(ExpectedCommandText(events[Len(events)]),
                assembled[Len(assembled)].content)

(***************************************************************************)
(* Further properties of the control loop.                                 *)
(***************************************************************************)
\* C16: history is append-only during a run: over background drains,
\* successful steps and steps that record errors, the length of history
\* never decreases and the entries already in it are neither altered nor
\* removed.
ThmC16_HistoryAppendOnly ==
    [][/\ Len(history') >= Len(history)
       /\ \A k \in 1..Len(history) : history'[k] = history[k]]_vars

\* a run whose history holds a drained background observation, an error
\* recorded by a step and the pair of an executed command
WitC16_HistoryOfARun ==
    /\ Len(history) >= 3
    /\ \E k \in 1..Len(history) : history[k].obs = "BackgroundObservation"
    /\ \E k \in 1..Len(history) :
          history[k].act = "NullAction" /\ history[k].obs = "AgentErrorObservation"
    /\ \E k \in 1..Len(history) : history[k].act = "CmdRunAction"

(***************************************************************************)
(* Two coroutines on one controller.  start() and resume() do not test     *)
(* whether a loop is active, so a caller that invokes one of them while    *)
(* the loop is suspended in an await creates a second coroutine running    *)
(* _run on the same controller.  The event loop runs one coroutine at a    *)
(* time and switches at the awaits: the variables pc, i, log_obs, action,  *)
(* observation, ret, exc are the locals of the coroutine that runs now,    *)
(* and other holds the locals of the one that is suspended.                *)
(***************************************************************************)
MaxSpawn == 1           \* start()/resume() calls made while a loop is active
MaxSwitch == 2          \* switches between the two coroutines

\* awaits inside start, resume, _run and step
RunningYieldPcs == {"start_notified", "resume_notified", "drain_yield",
                    "action_yield", "run_await", "obs_yield", "pause_yield"}

\* positions inside step, and inside the for loop of _run
StepPcs == {"step_begin", "drain", "drain_yield", "action_yield", "run_await",
            "record", "obs_yield"}
LoopPcs == StepPcs \cup {"loop_head", "after_step", "pause_yield"}

\* the locals of the coroutine that runs now
Current == [pc |-> pc, i |-> i, log_obs |-> log_obs, action |-> action,
            observation |-> observation, ret |-> ret, exc |-> exc]

\* the event loop resumes the suspended coroutine: the running one is in an
\* await or has ended
Switch ==
    /\ other.pc \notin {"none", "done", "raised"}
    /\ pc \in RunningYieldPcs \cup {"done", "raised"}
    /\ switches < MaxSwitch
    /\ switches' = switches + 1
    /\ other' = Current
    /\ pc' = other.pc
    /\ i' = other.i
    /\ log_obs' = other.log_obs
    /\ action' = other.action
    /\ observation' = other.observation
    /\ ret' = other.ret
    /\ exc' = other.exc
    /\ UNCHANGED <<stateVars, task_state, finished, cur_step, delivered,
                   ghostVars, envVars, spawned>>
    /\ UNCHANGED <<agentVars, parserVars, msgVars, mainVars, browseVars,
                   cbVars, sharedVars>>

\* a new coroutine starts with fresh locals while the loop is suspended
Spawn ==
    /\ pc \in RunningYieldPcs
    /\ other.pc = "none"
    /\ spawned < MaxSpawn
    /\ spawned' = spawned + 1
    /\ other' = Current
    /\ i' = 0
    /\ log_obs' = 0
    /\ action' = "NullAction"
    /\ observation' = "NullObservation"
    /\ ret' = "None"
    /\ UNCHANGED switches

\* a caller invokes resume() while the loop is suspended: resume up to the
\* await in notify_task_state_changed
ExternalResume ==
    /\ Spawn
    /\ IF ~hasState
       THEN /\ pc' = "raised"
            /\ exc' = "ValueError"
            /\ UNCHANGED <<task_state, delivered>>
       ELSE /\ task_state' = "RUNNING"
            /\ delivered' = NotifyTaskStateChanged(delivered, "RUNNING")
            /\ pc' = "resume_notified"
            /\ exc' = "none"
    /\ UNCHANGED <<stateVars, finished, cur_step, ghostVars, envVars>>
    /\ UNCHANGED <<agentVars, parserVars, msgVars, mainVars, browseVars,
                   cbVars, sharedVars>>

\* a caller invokes start(task) while the loop is suspended: start up to
\* the await in notify_task_state_changed
ExternalStart ==
    /\ Spawn
    /\ task_state' = "RUNNING"
    /\ delivered' = NotifyTaskStateChanged(delivered, "RUNNING")
    /\ pc' = "start_notified"
    /\ exc' = "none"
    /\ UNCHANGED <<stateVars, finished, cur_step, ghostVars, envVars>>
    /\ UNCHANGED <<agentVars, parserVars, msgVars, mainVars, browseVars,
                   cbVars, sharedVars>>

OverlapReturns == {"CmdRunAction"}

AgentStepOverlap == AgentStepOf(OverlapReturns)

NextOverlap ==
    \/ Start
    \/ StartRun
    \/ ResumeRun
    \/ LoopHead
    \/ StepBegin
    \/ AgentStepOverlap
    \/ Dispatch
    \/ RunComplete
    \/ Record
    \/ StepReturn
    \/ AfterStep
    \/ ExternalResume
    \/ ExternalStart
    \/ Switch

SpecOverlap == Init /\ [][NextOverlap]_vars

\* C17: within one controller at most one step executes at a time: under
\* every interleaving of start, resume and set_task_state_to calls with the
\* running loop at its await points, two invocations of step never overlap
\* and at most one _run loop is active.
CexC17_OneStepAtATime ==
    /\ ~(pc \in StepPcs /\ other.pc \in StepPcs)
    /\ ~(pc \in LoopPcs /\ other.pc \in LoopPcs)

\* the deliveries of the actions and observations of the steps (not of the
\* background observations, not of the task state changes), in order
RECURSIVE StepDeliveries(_)
StepDeliveries(d) ==
    IF d = <<>> THEN <<>>
    ELSE LET rest == StepDeliveries(SubSeq(d, 1, Len(d) - 1))
             e == d[Len(d)]
         IN  IF e.ev \in {"action", "observation"}
                  /\ e.v # "BackgroundObservation"
             THEN Append(rest, e) ELSE rest

\* an action is followed by its observation, and an observation (or a
\* finish action, which has none) by the next action
DeliveredInOrder ==
    LET sd == StepDeliveries(delivered) IN
    \A k \in 1..Len(sd) :
        /\ sd[k].ev = "observation"
              => (k > 1 /\ sd[k - 1].ev = "action" /\ ~IsFinish(sd[k - 1].v))
        /\ (sd[k].ev = "action" /\ k > 1)
              => (sd[k - 1].ev = "observation" \/ IsFinish(sd[k - 1].v))

\* C18: for every iteration the callbacks receive the action before its
\* resulting observation, and both before the action of the next
\* iteration; the observation is delivered only after the (action,
\* observation) pair was appended to history.
CexC18_ObservationAfterHistory ==
    [][/\ DeliveredInOrder'
       /\ (pc = "record" /\ pc' = "obs_yield")
             => /\ delivered' = Append(delivered,
                                       [ev |-> "observation", v |-> observation])
                /\ Len(history') = Len(history) + 1
                /\ history'[Len(history')] = [act |-> action, obs |-> observation]]_vars

(***************************************************************************)
(* run_agent_controller and shutdown (opendevin/core/main.py).             *)
(*                                                                         *)
(* The main task runs run_agent_controller; a signal handler creates a     *)
(* task that runs shutdown(); tasks holds the other tasks of the event     *)
(* loop (the controller's and the runtime's).  One task runs at a time,    *)
(* each action is the stretch of a task between two awaits.                *)
(***************************************************************************)
MaxTasks == 2           \* in-flight tasks beside the main task
MaxSignals == 2         \* signals received during the run

TaskIds == 1..MaxTasks

\* the awaits of the main task before its try statement, inside it, and in
\* its finally clause
MainAwaitsBeforeTry == {"ainit", "add_event", "set_running"}
MainAwaitsInTry == {"waiting"}
MainAwaitsInFinally == {"stopping", "closing", "runtime_close"}
MainEnded == {"returned", "cancelled"}

\* the states in which the wait loop breaks
FinalAgentStates == {"FINISHED", "REJECTED", "ERROR", "PAUSED", "STOPPED"}

BackOnTrack == "Let's get back on track."
TaskText == "task_str"

\* run_agent_controller is called
InitMain ==
    /\ Idle(TRUE, TRUE, TRUE, TRUE, FALSE)
    /\ enable_cli_session \in BOOLEAN
    /\ initial_state = "None"
    /\ start_events = <<>>
    /\ is_shutting_down = FALSE
    /\ main_pc = "begin"
    /\ main_cancel = FALSE
    /\ shutdown_pc = "none"
    /\ tasks = [t \in TaskIds |-> "none"]
    /\ agent_state = "LOADING"
    /\ handler_event = FALSE
    /\ saved = FALSE
    /\ signals = 0

\* lines 89-120: the signal handlers, the restore of the session, the
\* controller and the runtime, up to the await of runtime.ainit()
MainSetup ==
    /\ main_pc = "begin"
    /\ \E restored \in (IF enable_cli_session THEN {"restored", "None"}
                        ELSE {"None"}) :
          initial_state' = restored
    /\ tasks' = [t \in TaskIds |-> "running"]
    /\ main_pc' = "ainit"
    /\ UNCHANGED <<enable_cli_session, start_events, is_shutting_down,
                   main_cancel, shutdown_pc, agent_state, handler_event, saved,
                   signals>>
    /\ UNCHANGED notMainVars

\* a variant that tests only whether session persistence is enabled
MainStartEventByConfig ==
    /\ main_pc = "ainit"
    /\ ~main_cancel
    /\ start_events' =
          IF enable_cli_session
          THEN Append(start_events, BackOnTrack)
          ELSE Append(start_events, TaskText)
    /\ main_pc' = "add_event"
    /\ UNCHANGED <<enable_cli_session, initial_state, is_shutting_down,
                   main_cancel, shutdown_pc, tasks, agent_state, handler_event,
                   saved, signals>>
    /\ UNCHANGED notMainVars

\* lines 121-149: the start event, up to the await of add_event
MainStartEvent ==
    /\ main_pc = "ainit"
    /\ ~main_cancel
    /\ start_events' =
          IF enable_cli_session /\ initial_state # "None"
          THEN Append(start_events, BackOnTrack)
          ELSE IF initial_state = "None"
               THEN Append(start_events, TaskText)
               ELSE start_events
    /\ main_pc' = "add_event"
    /\ UNCHANGED <<enable_cli_session, initial_state, is_shutting_down,
                   main_cancel, shutdown_pc, tasks, agent_state, handler_event,
                   saved, signals>>
    /\ UNCHANGED notMainVars

\* lines 151-177: subscribe, the second shutdown_event, and
\* set_agent_state_to(RUNNING) up to its await
MainSetRunning ==
    /\ main_pc = "add_event"
    /\ ~main_cancel
    /\ agent_state' = "RUNNING"
    /\ main_pc' = "set_running"
    /\ UNCHANGED <<enable_cli_session, initial_state, start_events,
                   is_shutting_down, main_cancel, shutdown_pc, tasks,
                   handler_event, saved, signals>>
    /\ UNCHANGED notMainVars

\* lines 179-213: one turn of the wait loop.  The loop waits on the
\* shutdown_event of line 174, which no signal handler holds, so the wait
\* can only time out.  When the loop ends the session is saved if enabled,
\* and the finally clause awaits controller.stop().
MainLoop ==
    /\ main_pc \in {"set_running", "waiting"}
    /\ ~main_cancel
    /\ IF ~is_shutting_down /\ agent_state \notin FinalAgentStates
       THEN /\ main_pc' = "waiting"
            /\ UNCHANGED saved
       ELSE /\ saved' = (saved \/ enable_cli_session)
            /\ main_pc' = "stopping"
    /\ UNCHANGED <<enable_cli_session, initial_state, start_events,
                   is_shutting_down, main_cancel, shutdown_pc, tasks,
                   agent_state, handler_event, signals>>
    /\ UNCHANGED notMainVars

\* the finally clause: controller.stop(), controller.close(),
\* runtime.close(), and the return
MainFinally ==
    /\ main_pc \in MainAwaitsInFinally
    /\ ~main_cancel
    /\ IF main_pc = "stopping"
       THEN /\ agent_state' = "STOPPED"
            /\ main_pc' = "closing"
       ELSE /\ main_pc' = IF main_pc = "closing" THEN "runtime_close"
                          ELSE "returned"
            /\ UNCHANGED agent_state
    /\ UNCHANGED <<enable_cli_session, initial_state, start_events,
                   is_shutting_down, main_cancel, shutdown_pc, tasks,
                   handler_event, saved, signals>>
    /\ UNCHANGED notMainVars

\* the main task is resumed with the CancelledError of task.cancel(): inside
\* the try statement the except clause logs it and the finally clause
\* runs; at any other await it leaves run_agent_controller
MainCancelled ==
    /\ main_cancel
    /\ main_pc \in MainAwaitsBeforeTry \cup MainAwaitsInTry
                     \cup MainAwaitsInFinally
    /\ main_cancel' = FALSE
    /\ main_pc' = IF main_pc \in MainAwaitsInTry THEN "stopping"
                  ELSE "cancelled"
    /\ UNCHANGED <<enable_cli_session, initial_state, start_events,
                   is_shutting_down, shutdown_pc, tasks, agent_state,
                   handler_event, saved, signals>>
    /\ UNCHANGED notMainVars

\* SIGHUP, SIGTERM or SIGINT: the handler creates a task for shutdown()
Signal ==
    /\ main_pc \notin {"begin"} \cup MainEnded
    /\ signals < MaxSignals
    /\ signals' = signals + 1
    /\ shutdown_pc' = IF shutdown_pc = "none" THEN "created" ELSE shutdown_pc
    /\ UNCHANGED <<enable_cli_session, initial_state, start_events,
                   is_shutting_down, main_pc, main_cancel, tasks, agent_state,
                   handler_event, saved>>
    /\ UNCHANGED notMainVars

\* shutdown(), up to the await of gather: every task but the current one is
\* cancelled, the main task among them
Shutdown ==
    /\ shutdown_pc = "created"
    /\ IF is_shutting_down
       THEN /\ shutdown_pc' = "done"
            /\ UNCHANGED <<is_shutting_down, tasks, main_cancel>>
       ELSE /\ is_shutting_down' = TRUE
            /\ tasks' = [t \in TaskIds |->
                            IF tasks[t] = "running" THEN "cancelling"
                            ELSE tasks[t]]
            /\ main_cancel' = (main_pc \notin MainEnded)
            /\ shutdown_pc' = "gather"
    /\ UNCHANGED <<enable_cli_session, initial_state, start_events, main_pc,
                   agent_state, handler_event, saved, signals>>
    /\ UNCHANGED notMainVars

\* shutdown(), after gather: every other task has ended
ShutdownDone ==
    /\ shutdown_pc = "gather"
    /\ main_pc \in MainEnded
    /\ \A t \in TaskIds : tasks[t] \in {"done", "cancelled"}
    /\ handler_event' = TRUE
    /\ shutdown_pc' = "done"
    /\ UNCHANGED <<enable_cli_session, initial_state, start_events,
                   is_shutting_down, main_pc, main_cancel, tasks, agent_state,
                   saved, signals>>
    /\ UNCHANGED notMainVars

\* an in-flight task is resumed with its cancellation, or ends by itself
TaskEnds ==
    /\ \E t \in TaskIds :
          /\ tasks[t] \in {"running", "cancelling"}
          /\ tasks' = [tasks EXCEPT ![t] = IF tasks[t] = "cancelling"
                                           THEN "cancelled" ELSE "done"]
    /\ UNCHANGED <<enable_cli_session, initial_state, start_events,
                   is_shutting_down, main_pc, main_cancel, shutdown_pc,
                   agent_state, handler_event, saved, signals>>
    /\ UNCHANGED notMainVars

\* the controller reaches a final state
AgentFinishes ==
    /\ agent_state = "RUNNING"
    /\ \E t \in TaskIds : tasks[t] = "running"
    /\ agent_state' \in {"FINISHED", "ERROR"}
    /\ UNCHANGED <<enable_cli_session, initial_state, start_events,
                   is_shutting_down, main_pc, main_cancel, shutdown_pc, tasks,
                   handler_event, saved, signals>>
    /\ UNCHANGED notMainVars

NextMain ==
    \/ MainSetup
    \/ MainStartEvent
    \/ MainSetRunning
    \/ MainLoop
    \/ MainFinally
    \/ MainCancelled
    \/ Signal
    \/ Shutdown
    \/ ShutdownDone
    \/ TaskEnds
    \/ AgentFinishes

SpecMain == InitMain /\ [][NextMain]_vars

\* C19: when a shutdown signal arrives during run_agent_controller, all
\* other in-flight tasks are cancelled, the main wait loop exits, and, if
\* session persistence is enabled, the controller's final state is saved
\* to the session before the function returns.
CexC19_SavedOnShutdown ==
    (main_pc = "returned" /\ is_shutting_down)
        => /\ \A t \in TaskIds : tasks[t] # "running"
           /\ enable_cli_session => saved

(***************************************************************************)
(* The exit check of step                                                  *)
(***************************************************************************)
\* the latest user messages that are the exit sentinel once trimmed
ExitMessages == {"/exit", " /exit\n"}

\* C20: once the exit check of a step is past, if the latest user message,
\* trimmed, is '/exit' then the step has returned AgentFinishAction with no
\* messages built and no call made to the LLM or the condenser; otherwise
\* the messages were built and the step returns only after a completion.
ThmC20_ExitShortCircuits ==
    apc # "start" =>
        IF latest_user_message \in ExitMessages
        THEN /\ apc = "returned"
             /\ result = [kind |-> "return", val |-> "AgentFinishAction"]
             /\ messages = <<>>
             /\ trace = <<>>
             /\ tries = 0
             /\ condOutcome = "none"
        ELSE /\ Len(messages) >= 1
             /\ apc = "returned" => \E k \in 1..Len(trace) : trace[k] = "completion"

WitC20_ExitAfterTrimming ==
    /\ apc = "returned"
    /\ latest_user_message = " /exit\n"
    /\ result.val = "AgentFinishAction"
    /\ messages = <<>>

(***************************************************************************)
(* Further properties of the message assembly.                             *)
(***************************************************************************)
\* the messages of assembled that hold a reminder of t turns
WithReminder(t) ==
    {k \in 1..Len(assembled) :
        HasLine(assembled[k].content, Reminder(agent_class, t)[2])}

\* the turns left when the assembled messages were built
TurnsLeft == MaxIterations - StateIteration(events)

\* C21: the assembled messages hold the reminder of (max_iterations -
\* iteration) turns in exactly one message, the last one of role user, once,
\* at its end, and no reminder of another step; assembling leaves the
\* history events as they are, and the history changes only by the events
\* a step appends.
ThmC21_ReminderInViewOnly ==
    /\ [](mpc = "act" =>
            /\ \E k \in 1..Len(assembled) :
                  /\ WithReminder(TurnsLeft) = {k}
                  /\ assembled[k].role = "user"
                  /\ \A j \in (k + 1)..Len(assembled) :
                        assembled[j].role # "user"
                  /\ LET c == assembled[k].content
                     IN  /\ c[Len(c)] = Reminder(agent_class, TurnsLeft)[2]
                         /\ \A n \in 1..(Len(c) - 1) :
                               c[n] # Reminder(agent_class, TurnsLeft)[2]
            /\ \A t \in 0..MaxIterations :
                  t # TurnsLeft => WithReminder(t) = {})
    /\ [][/\ mpc = "step" => events' = events
          /\ IsPrefix(events, events')]_vars

\* two steps were recorded, the second with a command output, and the
\* messages of the third step carry the reminder on that output
WitC21_ReminderOnLatestOutput ==
    /\ mpc = "act"
    /\ Len(events) = 4
    /\ events[4].kind = "CmdOutputObservation"
    /\ events[2].kind = "IPythonRunCellObservation"
    /\ Len(assembled) = 6
    /\ WithReminder(MaxIterations - 2) = {6}

\* C22: for every history, the empty one included, the assembled messages
\* begin with the system prompt of role system and then the in-context
\* example of role user, and these two occur nowhere else: every later
\* message stems from an event of the history, at most one per event.
ThmC22_TwoLeadingMessages ==
    mpc = "act" =>
        /\ Len(assembled) >= 2
        /\ assembled[1].role = "system"
        /\ assembled[1].content = <<"SYSTEM">>
        /\ assembled[2].role = "user"
        /\ IsPrefix(<<"EXAMPLE">>, assembled[2].content)
        /\ \A k \in 3..Len(assembled) :
              /\ assembled[k].role \in {"user", "assistant"}
              /\ ~HasLine(assembled[k].content, "SYSTEM")
              /\ ~HasLine(assembled[k].content, "EXAMPLE")
        /\ Len(assembled) <= 2 + Len(events)
        /\ events = <<>> => Len(assembled) = 2

\* the messages of a history of one step were assembled: the two leading
\* messages and then the two of the step
WitC22_LeadingThenHistory ==
    /\ mpc = "act"
    /\ Len(events) = 2
    /\ Len(assembled) = 4
    /\ assembled[2].content = <<"EXAMPLE">>
    /\ assembled[3].role = "assistant"

(***************************************************************************)
(* Notifications of the task state.                                        *)
(***************************************************************************)
\* the states of the TaskStateChangedAction events delivered so far
RECURSIVE NotifiedStates(_)
NotifiedStates(d) ==
    IF d = <<>> THEN <<>>
    ELSE (IF Head(d).ev = "TaskStateChangedAction" THEN <<Head(d).v>> ELSE <<>>)
           \o NotifiedStates(Tail(d))

\* C23: every change of the task state is followed by a notification that
\* carries the new state: once the calls of start, resume and
\* set_task_state_to have returned and the loop has ended, the last
\* TaskStateChangedAction the callbacks received carries the task state.
CexC23_ChangesNotified ==
    pc \in {"done", "raised"} =>
        LET n == NotifiedStates(delivered)
        IN  /\ n # <<>>
            /\ n[Len(n)] = task_state

(***************************************************************************)
(* Pause and resume.                                                       *)
(***************************************************************************)
\* the loop has handled a pause and nothing was notified since
PausedByLoop ==
    LET n == NotifiedStates(delivered)
    IN  n # <<>> /\ n[Len(n)] = "PAUSED"

\* resume() was called on a task the loop had paused, and no state was
\* notified since
ResumedFromPause ==
    LET n == NotifiedStates(delivered)
    IN  Len(n) >= 2 /\ n[Len(n)] = "RUNNING" /\ n[Len(n) - 1] = "PAUSED"

\* C24: when the task state is PAUSED after the step of iteration i, the
\* loop stops with cur_step = i + 1; the run resume() starts from there
\* invokes step with cur_step, cur_step + 1, ... below the ceiling, one
\* after the other, and with the history the pause left.
ThmC24_PauseResumable ==
    /\ []((PausedByLoop /\ hasState /\ pc \in {"pause_yield", "done"}) =>
             /\ stepCalls # <<>>
             /\ cur_step = stepCalls[Len(stepCalls)] + 1
             /\ cur_step <= MaxIterations)
    /\ []((ResumedFromPause /\ hasState /\ pc \notin {"resume_notified", "raised"}) =>
             /\ \A k \in 1..Len(stepCalls) : stepCalls[k] = cur_step + k - 1
             /\ cur_step + Len(stepCalls) <= MaxIterations
             /\ pc = "loop_head" => i = cur_step + Len(stepCalls)
             /\ (pc = "done" /\ task_state = "RUNNING")
                   => cur_step + Len(stepCalls) = MaxIterations)
    /\ [][(pc = "resume_notified" /\ pc' # pc) =>
             /\ history' = history
             /\ (hasState /\ task_state = "RUNNING") =>
                   pc' = "loop_head" /\ i' = cur_step]_vars

\* a run paused during iteration 0 was resumed and is about to take the
\* step of iteration 1 with its history of iteration 0
WitC24_ResumedAtSavedIndex ==
    /\ ResumedFromPause
    /\ pc = "step_begin"
    /\ resumes = 1
    /\ cur_step = 1
    /\ i = 1
    /\ stepCalls = <<1>>
    /\ Len(history) >= 1

(***************************************************************************)
(* browse (opendevin/runtime/server/browse.py).  The browser is a          *)
(* collaborator: browser.step returns an observation dictionary or raises. *)
(***************************************************************************)
\* the actions handed to browse; the last one is not a browser action
BrowseActions ==
    {[action |-> "browse", url |-> u, browser_actions |-> ""] :
        u \in {"http://a.org", "https://b.org", "/index.html", "page.html"}}
    \cup {[action |-> "browse_interactive", url |-> "", browser_actions |-> b] :
            b \in {"click('12')", "scroll(0, 200)", "noop()"}}
    \cup {[action |-> "run", url |-> "", browser_actions |-> ""]}

\* os.path.abspath(os.curdir)
CurDir == "/cwd"

\* the keys browse reads from the dictionary browser.step returns
ObsKeys == {"text_content", "open_pages_urls", "active_page_index",
            "dom_object", "axtree_object", "last_action",
            "focused_element_bid", "screenshot", "url"}

\* what browser.step does: it returns a dictionary with the keys given, or
\* raises an exception with a text
BrowserSteps ==
    {[outcome |-> "obs", keys |-> ObsKeys, text |-> t] :
        t \in {"<html>", ""}}
    \cup {[outcome |-> "obs", keys |-> ObsKeys \ {k}, text |-> "<html>"] :
            k \in {"text_content", "screenshot", "url"}}
    \cup {[outcome |-> "raise", keys |-> {}, text |-> t] :
            t \in {"Timeout 30000ms exceeded", "net::ERR_NAME_NOT_RESOLVED",
                   "Browser environment took too long to respond", ""}}

\* asked_url for the legacy BrowseURLAction
AskedUrl(a) ==
    IF SubSeq(a.url, 1, 4) = "http" THEN a.url ELSE CurDir \o a.url

\* the first key missing from the dictionary, in the order browse reads them
FirstMissing(keys) ==
    CHOOSE k \in ObsKeys \ keys :
        \A j \in ObsKeys \ keys :
            LET order == <<"text_content", "open_pages_urls",
                           "active_page_index", "dom_object", "axtree_object",
                           "last_action", "focused_element_bid", "screenshot",
                           "url">>
                pos(x) == CHOOSE n \in 1..Len(order) : order[n] = x
            IN  pos(k) <= pos(j)

\* str(e) of the exception caught: the text of the exception browser.step
\* raised, or the KeyError of the first missing key
FailureText(st) ==
    IF st.outcome = "raise" THEN st.text
    ELSE "'" \o FirstMissing(st.keys) \o "'"

\* the step failed: it raised, or its dictionary lacks a key
StepFailed(st) == st.outcome = "raise" \/ st.keys # ObsKeys

BrowseFailedRaises(a, st) ==
    [kind |-> "raise", exception |-> FailureText(st)]

\* the except clause
BrowseFailed(a, st) ==
    [kind |-> "return", content |-> FailureText(st), screenshot |-> "",
     error |-> TRUE,
     url |-> IF a.action = "browse" THEN AskedUrl(a) ELSE ""]

\* the observation of the try block
BrowseOk(a, st) ==
    [kind |-> "return", content |-> st.text, screenshot |-> "png",
     error |-> FALSE, url |-> "url"]

\* browse is called with an action
InitBrowse ==
    /\ CtlInit /\ SingleCoroutine /\ AgentIdle /\ ParserIdle
    /\ AssemblerIdle /\ MainIdle /\ CallbacksIdle /\ SharedIdle
    /\ browse_action \in BrowseActions
    /\ browser_step = [outcome |-> "none"]
    /\ browse_result = [kind |-> "none"]
    /\ bpc = "call"

\* lines 8-22: action_str, and the call of browser.step
BrowseCall ==
    /\ bpc = "call"
    /\ IF browse_action.action \in {"browse", "browse_interactive"}
       THEN /\ browser_step' \in BrowserSteps
            /\ bpc' = "stepped"
            /\ UNCHANGED browse_result
       ELSE /\ browse_result' = [kind |-> "raise", exception |-> "ValueError"]
            /\ bpc' = "raised"
            /\ UNCHANGED browser_step
    /\ UNCHANGED <<browse_action, notBrowseVars>>

\* lines 23-40: the observation of the try block or of the except clause
BrowseReturn ==
    /\ bpc = "stepped"
    /\ browse_result' = IF StepFailed(browser_step)
                        THEN BrowseFailed(browse_action, browser_step)
                        ELSE BrowseOk(browse_action, browser_step)
    /\ bpc' = "returned"
    /\ UNCHANGED <<browse_action, browser_step, notBrowseVars>>

NextBrowse ==
    \/ BrowseCall
    \/ BrowseReturn

SpecBrowse == InitBrowse /\ [][NextBrowse]_vars

\* C25: for the legacy URL action and for the interactive action, when
\* browser.step has failed browse does not raise: it returns an observation
\* with error true whose content is the text of the failure.
ThmC25_BrowseFailureIsObservation ==
    /\ (bpc = "raised" =>
           browse_action.action \notin {"browse", "browse_interactive"})
    /\ (bpc = "returned" /\ (browser_step.outcome = "raise"
                               \/ browser_step.keys # ObsKeys)) =>
           /\ browse_result.kind = "return"
           /\ browse_result.error = TRUE
           /\ browser_step.outcome = "raise"
                 => browse_result.content = browser_step.text

\* the browser timed out on an interactive action and browse has returned
WitC25_InteractiveTimeout ==
    /\ bpc = "returned"
    /\ browse_action.action = "browse_interactive"
    /\ browser_step.outcome = "raise"
    /\ browser_step.text = "Timeout 30000ms exceeded"
    /\ browse_result.error = TRUE

(***************************************************************************)
(* Further properties of CodeActAgent.step.                                *)
(***************************************************************************)
\* the entries of trace that stand for a run of summarize_messages_inplace
CondensationPasses == {"condensed", "SummarizeError", "SummarizerError"}

\* C26: within a step, every completion attempt that fails with a
\* context-window or token-limit condition is followed, as the next thing
\* the step does, by one condensation pass and no second one, and a
\* condensation pass happens only right after such a failure.
CexC26_FailureTriggersCondensation ==
    \A k \in 1..Len(trace) :
        /\ (trace[k] \in ContextErrors /\ k < Len(trace)) =>
              /\ trace[k + 1] \in CondensationPasses
              /\ k + 2 <= Len(trace) => trace[k + 2] \notin CondensationPasses
        /\ trace[k] \in CondensationPasses =>
              k > 1 /\ trace[k - 1] \in ContextErrors

\* C27: when a completion request fails with an exception that is neither
\* the context-window nor the token-limit condition, the step raises that
\* exception at once: it is the last thing of the step, with no condensation
\* and no completion request after it.
ThmC27_OtherExceptionPropagates ==
    \A k \in 1..Len(trace) :
        trace[k] = "OtherError" =>
            /\ k = Len(trace)
            /\ apc = "raised"
            /\ result = [kind |-> "raise", val |-> "OtherError"]
            /\ tries = Cardinality({j \in 1..k : trace[j] \notin
                          CondensationPasses \cup {"ContextWindowLimitExceededError"}})

\* the second attempt of a step, after a condensation, failed with another
\* exception
WitC27_OtherErrorOnSecondAttempt ==
    /\ trace = <<"TokenLimitExceededError", "condensed", "OtherError">>
    /\ apc = "raised"
    /\ result.val = "OtherError"

\* C28: when summarize_messages_inplace fails with SummarizeError, the step
\* raises SummarizeError to its caller with the messages as they were: no
\* completion request and no condensation follows in that step.
ThmC28_CondenseErrorSurfaces ==
    \A k \in 1..Len(trace) :
        trace[k] = "SummarizeError" =>
            /\ k = Len(trace)
            /\ apc = "raised"
            /\ result = [kind |-> "raise", val |-> "SummarizeError"]
            /\ messages = condIn
            /\ Cardinality({j \in 1..Len(trace) :
                               trace[j] \in CondensationPasses}) <= 2

\* the first condensation of a step succeeded and the second one, after a
\* second failure of the completion, failed with SummarizeError
WitC28_SecondCondensationFails ==
    /\ trace = <<"TokenLimitExceededError", "condensed",
                 "ContextWindowExceededError", "SummarizeError">>
    /\ apc = "raised"
    /\ result.val = "SummarizeError"

(***************************************************************************)
(* Further properties of the memory condenser.                             *)
(***************************************************************************)
\* the 0-based index, in the buffer m[2:], of the first message at which
\* the running sum of the token counts exceeds 0.75 times the buffer total
FirstExceeding(m) ==
    LET cand == SubSeq(m, 3, Len(m))
        desired == DesiredTokenCount(BufferTokenCount(m))
        K == {k \in 1..Len(cand) : TokenCount(SubSeq(cand, 1, k)) > desired}
    IN  (CHOOSE k \in K : \A j \in K : k <= j) - 1

\* summarize_messages_inplace got past its first check on condIn
CutoffSelected == Len(condIn) > 2 /\ condOutcome # "none"

\* C29: the tentative cutoff is the index in the full message sequence
\* (buffer index plus 2) of the first buffer message at which the running
\* sum of the token counts exceeds 0.75 times the buffer total: the cutoff
\* selected is that index, or one more when the message there has role
\* user, and when it is that index the messages handed on for summarizing
\* are those from index 2 up to, not including, that message.
CexC29_CutoffAtFirstExceeding ==
    CutoffSelected =>
        LET t == FirstExceeding(condIn) + 2
        IN  /\ condCut \in {t, t + 1}
            /\ (condIn[t + 1].role # "user") => condCut = t
            /\ (condCut = t /\ condOutcome # "SummarizeError") =>
                   summIn = SubSeq(condIn, 3, t)

\* the tentative cutoff of the code: cutoff after "cutoff += 1"
TentativeCutoff == FirstExceeding(condIn) + 1

StepMatchers == {"CmdRun", "IPythonRunCell", "AgentDelegate", "PlanStep"}

\* s carries a step annotation (the first opening delimiter of plan_step
\* and the first closing delimiter after it) whose trimmed body is not a
\* non-empty run of digits
BadAnnotation(s) ==
    \E a \in 1..Len(s) : \E b \in (a + 1)..Len(s) :
        /\ s[a] = OpenTag("plan_step")
        /\ \A k \in 1..(a - 1) : s[k] # OpenTag("plan_step")
        /\ s[b] = CloseTag("plan_step")
        /\ \A k \in (a + 1)..(b - 1) : s[k] # CloseTag("plan_step")
        /\ LET inner == {k \in (a + 1)..(b - 1) : s[k] \notin WhiteSpace}
           IN  \/ inner = {}
               \/ \E k \in (a + 1)..(b - 1) :
                     /\ s[k] \notin Digits
                     /\ \E lo \in inner : lo <= k
                     /\ \E hi \in inner : k <= hi

\* C31 as stated: whenever the text carries a step annotation whose body is
\* not an integer and the command, code-cell, delegate or plan-step matcher
\* handles the text, the parse fails with an error and returns no action.
CexC31_BadAnnotationAlwaysFails ==
    (ppc = "done" /\ parsed.by \in StepMatchers /\ BadAnnotation(action_str))
        => parsed.action = ValueError

\* C31 amended: whenever the text carries a step annotation whose body is
\* not an integer and it is handled by the code-cell, delegate or plan-step
\* matcher, or by the command matcher with a command body other than
\* "exit", the parse fails with an error and returns no action; a command
\* body "exit" yields the finish action whatever the annotation holds.
ThmC31_BadAnnotationFailsUnlessExit ==
    (ppc = "done" /\ parsed.by \in StepMatchers /\ BadAnnotation(action_str))
        => IF parsed.by = "CmdRun" /\ CommandBodyIsExit(action_str)
           THEN parsed.action =
                    ParsedAction("AgentFinishAction", <<>>, <<>>, <<>>, FALSE)
           ELSE parsed.action = ValueError

\* the code-cell matcher raised on an annotation that holds a word
WitC31_CodeCellWordAnnotation ==
    /\ ppc = "done"
    /\ parsed.by = "IPythonRunCell"
    /\ BadAnnotation(action_str)
    /\ \E k \in 1..Len(action_str) : action_str[k] \in Words
    /\ parsed.action = ValueError

(***************************************************************************)
(* _run_callbacks (opendevin/controller/agent_controller.py).  A callback  *)
(* is a collaborator: awaited, it returns, raises an exception of class    *)
(* Exception, or raises one outside Exception (asyncio.CancelledError,     *)
(* KeyboardInterrupt, SystemExit), which no except Exception clause        *)
(* catches.                                                                *)
(***************************************************************************)
MaxCallbacks == 3       \* registered callbacks

CallbackIds == {"cb1", "cb2"}

\* self.callbacks: the same callback may be registered twice
CallbackLists == UNION {[1..n -> CallbackIds] : n \in 0..MaxCallbacks}

\* the events handed to _run_callbacks
CallbackEvents == {"None", "action", "observation", "TaskStateChangedAction"}

CallbackOutcomes == {"returns", "Exception", "BaseException"}

\* self.callbacks.index(callback)
CallbackIndex(cbs, c) == FirstIdx(cbs, c, 1) - 1

\* _run_callbacks is called with an event
InitCallbacks ==
    /\ CtlInit /\ SingleCoroutine /\ AgentIdle /\ ParserIdle
    /\ AssemblerIdle /\ MainIdle /\ BrowseIdle /\ SharedIdle
    /\ cb_event \in CallbackEvents
    /\ callbacks \in CallbackLists
    /\ cb_k = 0
    /\ cb_invoked = <<>>
    /\ cb_logged = <<>>
    /\ cbpc = "call"

\* lines 277-278: return at once without an event
CallbacksCall ==
    /\ cbpc = "call"
    /\ IF cb_event = "None"
       THEN cbpc' = "returned" /\ UNCHANGED cb_k
       ELSE cbpc' = "loop" /\ cb_k' = 1
    /\ UNCHANGED <<cb_event, callbacks, cb_invoked, cb_logged, notCbVars>>

\* a variant whose try statement encloses the for loop
CallbackInvokeUnguarded ==
    /\ cbpc = "loop"
    /\ cb_k <= Len(callbacks)
    /\ \E o \in CallbackOutcomes :
          /\ cb_invoked' = Append(cb_invoked,
                                  [callback |-> callbacks[cb_k],
                                   event |-> cb_event, outcome |-> o])
          /\ IF o = "returns"
             THEN cb_k' = cb_k + 1 /\ UNCHANGED <<cbpc, cb_logged>>
             ELSE IF o = "Exception"
             THEN /\ cb_logged' = Append(cb_logged,
                                     CallbackIndex(callbacks, callbacks[cb_k]))
                  /\ cb_k' = Len(callbacks) + 1
                  /\ UNCHANGED cbpc
             ELSE cbpc' = "raised" /\ UNCHANGED <<cb_k, cb_logged>>
    /\ UNCHANGED <<cb_event, callbacks, notCbVars>>

\* lines 279-284: one pass of the for loop; the try statement is inside it
CallbackInvoke ==
    /\ cbpc = "loop"
    /\ cb_k <= Len(callbacks)
    /\ \E o \in CallbackOutcomes :
          /\ cb_invoked' = Append(cb_invoked,
                                  [callback |-> callbacks[cb_k],
                                   event |-> cb_event, outcome |-> o])
          /\ IF o = "returns"
             THEN cb_k' = cb_k + 1 /\ UNCHANGED <<cbpc, cb_logged>>
             ELSE IF o = "Exception"
             THEN /\ cb_logged' = Append(cb_logged,
                                     CallbackIndex(callbacks, callbacks[cb_k]))
                  /\ cb_k' = cb_k + 1
                  /\ UNCHANGED cbpc
             ELSE cbpc' = "raised" /\ UNCHANGED <<cb_k, cb_logged>>
    /\ UNCHANGED <<cb_event, callbacks, notCbVars>>

\* lines 285-287: asyncio.sleep after the loop, then the return
CallbacksSleep ==
    /\ cbpc = "loop"
    /\ cb_k > Len(callbacks)
    /\ cbpc' = "returned"
    /\ UNCHANGED <<cb_event, callbacks, cb_k, cb_invoked, cb_logged,
                   notCbVars>>

NextCallbacks ==
    \/ CallbacksCall
    \/ CallbackInvoke
    \/ CallbacksSleep

SpecCallbacks == InitCallbacks /\ [][NextCallbacks]_vars

\* C32: an exception (of class Exception) raised by a registered callback
\* does not leave _run_callbacks: the callbacks are invoked with the event
\* one by one in registration order, a callback after one that raised is
\* still invoked, and the dispatch of an event returns to the step with
\* every registered callback invoked.
ThmC32_CallbackErrorsIsolated ==
    /\ Len(cb_invoked) <= Len(callbacks)
    /\ \A n \in 1..Len(cb_invoked) :
          /\ cb_invoked[n].callback = callbacks[n]
          /\ cb_invoked[n].event = cb_event
          /\ cb_invoked[n].outcome = "Exception" =>
                \/ n < Len(cb_invoked)
                \/ cbpc = "loop" /\ cb_k = n + 1
                \/ cbpc = "returned" /\ n = Len(callbacks)
    /\ cbpc = "raised" =>
          cb_invoked[Len(cb_invoked)].outcome = "BaseException"
    /\ (cbpc = "returned" /\ cb_event # "None")
          => Len(cb_invoked) = Len(callbacks)

\* the first of three callbacks raised, the other two were invoked after it
\* and the dispatch returned
WitC32_LaterCallbacksInvoked ==
    /\ cbpc = "returned"
    /\ Len(callbacks) = MaxCallbacks
    /\ Len(cb_invoked) = MaxCallbacks
    /\ cb_invoked[1].outcome = "Exception"
    /\ cb_invoked[2].outcome = "returns"
    /\ cb_logged = <<0>>

(***************************************************************************)
(* Terminal task states.                                                   *)
(***************************************************************************)
\* C33: STOPPED, FINISHED, REJECTED and ERROR are terminal: once the task
\* state was set to one of them while the loop is running, the loop invokes
\* no further agent step in that run: the agent's step function is not
\* invoked while the task state is one of them.
TerminalStates == {"STOPPED", "FINISHED", "REJECTED", "ERROR"}

CexC33_NoStepInTerminalState ==
    [][agentCalls' # agentCalls => task_state \notin TerminalStates]_vars

(***************************************************************************)
(* Background observations.                                                *)
(***************************************************************************)
BackgroundPair == [act |-> "NullAction", obs |-> "BackgroundObservation"]

\* the number of background observations delivered last
RECURSIVE TrailingBackground(_)
TrailingBackground(d) ==
    IF d # <<>> /\ d[Len(d)] = [ev |-> "observation",
                                v |-> "BackgroundObservation"]
    THEN 1 + TrailingBackground(SubSeq(d, 1, Len(d) - 1))
    ELSE 0

\* C34: in every iteration the background observations pending at the
\* start of the iteration are all read, each is appended to history paired
\* with a null action and delivered to the callbacks, and the agent's step
\* function is invoked only after the last of them, with a state whose
\* history ends with them.
CexC34_BackgroundBeforeAgent ==
    [][/\ (pc = "step_begin" /\ pc' = "drain") => log_obs' = bgPending
       /\ log_obs' < log_obs =>
             /\ history' = Append(history, BackgroundPair)
             /\ delivered' = Append(delivered,
                                    [ev |-> "observation",
                                     v |-> "BackgroundObservation"])
       /\ agentCalls' # agentCalls =>
             /\ log_obs = 0
             /\ hasState
             /\ Len(history) >= TrailingBackground(delivered)
             /\ \A k \in 1..TrailingBackground(delivered) :
                   history[Len(history) + 1 - k] = BackgroundPair]_vars

(***************************************************************************)
(* The start event of run_agent_controller.                                *)
(***************************************************************************)
\* C35: when the agent has been set RUNNING, exactly one initial user
\* message was added before: the "back on track" message when session
\* persistence is enabled and a state was restored, otherwise the task
\* text; at no time is there more than one, and the task text is never
\* added when a state was restored.
ThmC35_OneStartEvent ==
    /\ Len(start_events) <= 1
    /\ agent_state # "LOADING" =>
          start_events =
              <<IF enable_cli_session /\ initial_state = "restored"
                THEN BackOnTrack ELSE TaskText>>
    /\ initial_state = "restored" =>
          \A k \in 1..Len(start_events) : start_events[k] # TaskText

\* persistence is enabled, the restore found nothing, and the agent was set
\* RUNNING after the task text was added
WitC35_TaskTextAfterFailedRestore ==
    /\ enable_cli_session
    /\ initial_state = "None"
    /\ agent_state = "RUNNING"
    /\ start_events = <<TaskText>>

(***************************************************************************)
(* Termination of CodeActAgent.step.  A completion that returns a falsy    *)
(* response leaves messages, attempt and response as they were, so beyond  *)
(* the MaxEmpty responses that Attempt records the step is followed        *)
(* between the test of the while loop and the completion request, the only *)
(* thing that changes.                                                     *)
(***************************************************************************)
\* the test of the while loop holds once more: response is falsy and
\* attempt is below attempts_to_condense; is_over_token_limit is false and
\* the completion is requested
AwaitCompletion ==
    /\ apc = "loop"
    /\ emptyCount = MaxEmpty
    /\ Falsy(response) /\ attempt < AttemptsToCondense
    /\ apc' = "completion"
    /\ UNCHANGED <<latest_user_message, messages, attempt, response, result,
                   trace, tries, exhausted, condVars, emptyCount,
                   notAgentVars>>

\* the completion returns a falsy response without raising: no except
\* clause runs, attempt is not incremented, and the loop tests again
CompletionFalsy ==
    /\ apc = "completion"
    /\ response' = [response EXCEPT !.text = ""]
    /\ apc' = "loop"
    /\ UNCHANGED <<latest_user_message, messages, attempt, result, trace,
                   tries, exhausted, condVars, emptyCount, notAgentVars>>

NextAgentLive ==
    \/ NextAgent
    \/ AwaitCompletion
    \/ CompletionFalsy

\* the step keeps running: it is never suspended for ever
SpecAgentLive == InitAgent /\ [][NextAgentLive]_vars /\ WF_vars(NextAgentLive)

\* C36: every invocation of CodeActAgent.step terminates, returning an
\* action or raising, whatever the LLM does, a completion that returns a
\* falsy response without raising included.
CexC36_StepTerminates == <>(apc \in {"returned", "raised"})

(***************************************************************************)
(* The result of a condensation.                                           *)
(***************************************************************************)
\* C37: whenever a condensation has returned a result, the result has
\* strictly fewer messages than its input, its last message is the last
\* message of the input, and that message is not among the messages that
\* were summarized.
ThmC37_CondensedShorterKeepsLast ==
    condOutcome = "ok" =>
        /\ Len(messages) < Len(condIn)
        /\ messages[Len(messages)] = condIn[Len(condIn)]
        /\ \A j \in 1..Len(summIn) :
              summIn[j].ids \cap condIn[Len(condIn)].ids = {}
        /\ messages[3].ids \cap condIn[Len(condIn)].ids = {}

\* a condensation of the largest input summarized everything between the
\* leading messages and the last message, after the cutoff was advanced
\* onto the last message
WitC37_OnlyLastKept ==
    /\ condOutcome = "ok"
    /\ Len(condIn) = MaxBuf + 2
    /\ condCut = Len(condIn) - 1
    /\ condIn[condCut].role = "user"
    /\ Len(messages) = 4

(***************************************************************************)
(* Message actions in the assembled messages.                              *)
(***************************************************************************)
IsMessageAction(ev) == ev.type = "Action" /\ ev.kind = "MessageAction"

\* the assembled message is that of a message action: its content starts
\* with the content of the action (no other event's message does)
OfMessageAction(m) ==
    /\ m.content # <<>>
    /\ \E pr \in StepPairs : IsMessageAction(pr[1]) /\ m.content[1] = pr[1].body

\* C38: for both agent classes, the message actions of the history are
\* projected, one message each and in the order of their events, after the
\* two leading messages: the message has the role user when the source of
\* the action is the user and assistant otherwise, and the content of the
\* action (followed by the reminder on the latest user message).
CexC38_MessageActionsProjected ==
    mpc = "act" =>
        LET acts == SelectSeq(events, IsMessageAction)
            ms == SelectSeq(SubSeq(assembled, 3, Len(assembled)),
                            OfMessageAction)
        IN  /\ Len(assembled) >= 2
            /\ assembled[1] = LeadingMessages[1]
            /\ assembled[2].role = LeadingMessages[2].role
            /\ Len(ms) = Len(acts)
            /\ \A k \in 1..Len(ms) :
                  /\ ms[k].role = IF acts[k].source = "user"
                                  THEN "user" ELSE "assistant"
                  /\ ms[k].content \in
                        {<<acts[k].body>>,
                         <<acts[k].body>> \o Reminder(agent_class, TurnsLeft)}

(***************************************************************************)
(* One CodeActPlanningResponseParser instance parsing text after text.     *)
(* Each matcher keeps the match objects of its last check_condition as     *)
(* instance attributes, and parse reads them; a match object holds the     *)
(* groups of the text it was made from.                                    *)
(***************************************************************************)
MaxParses == 2          \* texts parsed by one parser instance
MaxSharedText == 3      \* tokens of each of them

SharedTokens ==
    {OpenTag("execute_bash"), CloseTag("execute_bash"),
     OpenTag("execute_ipython"), OpenTag("execute_browse"),
     OpenTag("plan_step"), CloseTag("plan_step"), "1", "ls"}

SharedTexts == UNION {[1..n -> SharedTokens] : n \in 0..MaxSharedText}

\* a match object, and None
NoneMatch == [found |-> FALSE, g0 |-> <<>>, g1 |-> <<>>]

StoredMatch(s, m) ==
    IF m.found THEN [found |-> TRUE, g0 |-> Group0(s, m), g1 |-> Group1(s, m)]
    ELSE NoneMatch

\* the attributes after __init__: all None
FreshMatchers ==
    [p \in Range(action_parsers) |-> [own |-> NoneMatch, plan_step |-> NoneMatch]]

\* the matchers that store a search for the step annotation
StoresPlanStep == {"CmdRun", "IPythonRunCell", "AgentDelegate"}

\* a variant that assigns the attribute only when the search matched
CheckConditionKeepsMatch(p, s, st) ==
    [st EXCEPT ![p] =
        [own |-> StoredMatch(s, check_condition(p, s)),
         plan_step |-> IF p \in StoresPlanStep /\ plan_step(s).found
                       THEN StoredMatch(s, plan_step(s))
                       ELSE @.plan_step]]

\* check_condition of matcher p on s: the attributes are assigned the
\* results of the searches, a match or None
CheckCondition(p, s, st) ==
    [st EXCEPT ![p] =
        [own |-> StoredMatch(s, check_condition(p, s)),
         plan_step |-> IF p \in StoresPlanStep
                       THEN StoredMatch(s, plan_step(s))
                       ELSE NoneMatch]]

\* thought and step from the stored self.plan_step
WithStoredStep(ps, thought, kind, body) ==
    IF ~ps.found THEN ParsedAction(kind, body, thought, <<>>, FALSE)
    ELSE LET step_group == StripText(ps.g1)
             thought2 == StripText(Replace(thought, ps.g0))
         IN  IF IsInt(step_group)
             THEN ParsedAction(kind, body, thought2, step_group, FALSE)
             ELSE ValueError

\* parse of matcher p on s, reading the attributes m of the matcher
ParseStored(p, s, m) ==
    LET thought == StripText(Replace(s, m.own.g0))
        group == StripText(m.own.g1)
    IN  CASE p = "Finish" ->
                ParsedAction("AgentFinishAction", <<>>, thought, <<>>, FALSE)
          [] p = "CmdRun" ->
                IF IsExit(m.own.g1)
                THEN ParsedAction("AgentFinishAction", <<>>, <<>>, <<>>, FALSE)
                ELSE WithStoredStep(m.plan_step, thought, "CmdRunAction", group)
          [] p = "IPythonRunCell" ->
                WithStoredStep(m.plan_step, thought, "IPythonRunCellAction",
                               group)
          [] p = "AgentDelegate" ->
                LET task == thought \o <<". I should start with: ">> \o group
                    a == WithStoredStep(m.plan_step, thought,
                                        "AgentDelegateAction", task)
                IN  IF a.kind = "ValueError" THEN a
                    ELSE [a EXCEPT !.thought = <<>>]
          [] p = "SavePlan" ->
                ParsedAction("SavePlanAction", group, thought, <<>>, FALSE)
          [] p = "PlanStep" ->
                IF IsInt(group)
                THEN ParsedAction("PlanStepAction", <<>>, thought, group, FALSE)
                ELSE ValueError

\* parse_action on the instance whose matchers hold st: the action, and
\* what the matchers hold afterwards
RECURSIVE ParseActionOn(_, _, _)
ParseActionOn(s, k, st) ==
    IF k > Len(action_parsers)
    THEN [by |-> "Message", action |-> ParseMessage(s), st |-> st]
    ELSE LET p == action_parsers[k]
             st2 == CheckCondition(p, s, st)
         IN  IF st2[p].own.found
             THEN [by |-> p, action |-> ParseStored(p, s, st2[p]), st |-> st2]
             ELSE ParseActionOn(s, k + 1, st2)

\* a parser instance is constructed
InitShared ==
    /\ CtlInit /\ SingleCoroutine /\ AgentIdle /\ ParserIdle
    /\ AssemblerIdle /\ MainIdle /\ BrowseIdle /\ CallbacksIdle
    /\ matchers = FreshMatchers
    /\ parses = 0

\* parse(response) on the instance
SharedParse ==
    /\ parses < MaxParses
    /\ \E t \in SharedTexts :
          LET r == ParseActionOn(parse_response(t), 1, matchers)
          IN  /\ content' = t
              /\ action_str' = parse_response(t)
              /\ parsed' = [by |-> r.by, action |-> r.action]
              /\ matchers' = r.st
    /\ ppc' = "done"
    /\ parses' = parses + 1
    /\ UNCHANGED notSharedParserVars

NextShared == SharedParse

SpecParserShared == InitShared /\ [][NextShared]_vars

\* C39: the action a parser instance returns for a text is the action a
\* fresh parser returns for it, whatever texts the instance parsed before.
ThmC39_ParseDependsOnTextOnly ==
    parses >= 1 =>
        LET fresh == ParseActionOn(action_str, 1, FreshMatchers)
        IN  /\ parsed.action = fresh.action
            /\ parsed.by = fresh.by
            /\ parsed = parse_action(action_str)

\* the instance parsed a command text without annotation while its
\* code-cell and plan-step matchers still held the annotation of the text
\* parsed before
WitC39_StaleAnnotationNotUsed ==
    /\ parses = 2
    /\ parsed.by = "CmdRun"
    /\ parsed.action.kind = "CmdRunAction"
    /\ parsed.action.step = <<>>
    /\ ~plan_step(action_str).found
    /\ matchers["IPythonRunCell"].plan_step.found
    /\ matchers["PlanStep"].own.found

(***************************************************************************)
(* A step in progress and reset_task.                                      *)
(***************************************************************************)
\* C40: the agent's step function is never invoked without a state, and no
\* action is run after the task was reset: when set_task_state_to(STOPPED)
\* ran at an await point of a step in progress, that step neither calls the
\* agent nor runs an action afterwards.
CexC40_NoAgentCallAfterReset ==
    [][/\ agentCalls' # agentCalls => hasState
       /\ (pc = "action_yield" /\ pc' # pc /\ Executable(action))
             => hasState]_vars
====
